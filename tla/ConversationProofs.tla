------------------------- MODULE ConversationProofs -------------------------
(***************************************************************************)
(* Proofs about ChatStreams and the two stores below it, for any number of  *)
(* conversations, streams and stops of the hub, and any browser.  ChatInv   *)
(* says what the two stores keep: histories stay readable, what is deleted  *)
(* stays deleted, turns and responses settle once.  StreamInv adds how far  *)
(* each stream is: slots are counted, frames are fresh, and a send that is  *)
(* reported completed was answered.  TransferInv says what an artifact and  *)
(* an import of one keep, for any edits and any deletions meanwhile.        *)
(***************************************************************************)
EXTENDS ChatStreams, Transfers, WellFoundedInduction, FiniteSetTheorems, SequenceTheorems, TLAPS

-----------------------------------------------------------------------------
(* The conversation store: its invariant, and what one of its steps is      *)

Row == [conv : Conv, parent : Nat, idx : Nat, role : Role,
        status : TurnStatus, purged : BOOLEAN, by : Writer]

ConvInv ==
    /\ conv \in [Conv -> ConvStatus]
    /\ turns \in Seq(Row)
    /\ Len(turns) <= MaxTurns
    /\ \A t \in 1 .. Len(turns) : turns[t].idx <= t
    /\ HistoryReadable
    /\ DeletedIsFinal

\* The rows keep their places and their purges, a streaming one may settle, and those
\* of a conversation that is deleted now are purged and settled.
RowsSettle ==
    /\ conv' \in [Conv -> ConvStatus]
    /\ turns' \in Seq(Row)
    /\ Len(turns') = Len(turns)
    /\ \A t \in 1 .. Len(turns) :
          /\ turns'[t].conv = turns[t].conv
          /\ turns'[t].parent = turns[t].parent
          /\ turns'[t].idx = turns[t].idx
          /\ turns'[t].role = turns[t].role
          /\ turns'[t].by = turns[t].by
          /\ \/ turns'[t].status = turns[t].status
             \/ turns[t].status = "streaming" /\ turns'[t].status \in TerminalTurnStatus
          /\ conv'[turns[t].conv] \in {"deleted", "erased"} =>
                turns'[t].purged /\ turns'[t].status # "streaming"

RowAppended ==
    \E c \in Conv, p \in Nat, i \in Nat, role \in Role, status \in TurnStatus, by \in Writer :
        i <= Len(turns) + 1 /\ AppendTurn(c, p, i, role, status, by)

StoreStep == RowAppended \/ RowsSettle

\* The turns seen as records that settle (Turns!Next).
TurnsMove ==
    /\ Len(turns) <= Len(turns') /\ Len(turns') <= MaxTurns
    /\ turns' \in Seq(Row)
    /\ \A t \in 1 .. Len(turns) :
          \/ turns'[t].status = turns[t].status
          \/ turns[t].status = "streaming" /\ turns'[t].status \in TerminalTurnStatus

LEMMA AppendKeepsInv ==
    ASSUME ConvInv, NEW c \in Conv, NEW p \in Nat, NEW i \in Nat, NEW role \in Role,
           NEW status \in TurnStatus, NEW by \in Writer, i <= Len(turns) + 1,
           AppendTurn(c, p, i, role, status, by)
    PROVE  ConvInv' /\ TurnsMove
<1> USE DEF ConvInv
<1> DEFINE row == NewTurn(c, p, i, role, status, by)
           n == Len(turns) + 1
<1>1. row \in Row /\ row.conv = c /\ row.parent = p /\ row.idx = i
  BY DEF Row, NewTurn
<1>2. turns' = Append(turns, row) /\ conv' = conv /\ Len(turns) < MaxTurns /\ conv[c] = "active"
  BY DEF AppendTurn, HasRoom, AppendAllowed
<1> HIDE DEF row
<1>3. /\ turns' \in Seq(Row) /\ Len(turns') = n /\ DOMAIN turns' = 1 .. n /\ Len(turns) \in Nat
      /\ DOMAIN turns = 1 .. Len(turns)
      /\ \A t \in 1 .. Len(turns) : turns'[t] = turns[t]
      /\ turns'[n] = row
  BY <1>1, <1>2
<1>4. Len(turns') <= MaxTurns
  BY <1>2, <1>3, ConversationAssumption
<1>5. TurnsMove
  BY <1>3, <1>4 DEF TurnsMove
<1>6. OwnTurns(c) = {t \in DOMAIN turns : turns[t].conv = c}
  BY <1>2 DEF OwnTurns
<1>7. p # Root => p \in 1 .. Len(turns) /\ turns[p].conv = c
  BY <1>3, <1>6 DEF AppendTurn, AppendAllowed
<1>8. \A u \in 1 .. Len(turns) : turns[u].conv = c /\ turns[u].parent = p =>
          p # Root /\ turns[u].idx # i
  BY <1>3, <1>6 DEF AppendTurn, AppendAllowed, Children, Taken
<1>9. HistoryReadable'
  <2>1. SUFFICES ASSUME NEW t \in 1 .. n
                 PROVE  /\ turns'[t].parent < t
                        /\ turns'[t].parent # Root => turns'[turns'[t].parent].conv = turns'[t].conv
                        /\ \A u \in 1 .. n :
                              u # t /\ turns'[u].conv = turns'[t].conv /\ turns'[u].parent = turns'[t].parent
                              => turns'[t].parent # Root /\ turns'[u].idx # turns'[t].idx
    BY <1>3 DEF HistoryReadable
  <2>2. CASE t = n
    BY <1>1, <1>3, <1>7, <1>8, <2>2 DEF Root
  <2>3. CASE t \in 1 .. Len(turns)
    <3>0. turns[t] \in Row
      BY <2>3
    <3>1. turns'[t] = turns[t] /\ turns[t].parent \in Nat
      BY <1>3, <2>3, <3>0 DEF Row
    <3>2. turns[t].parent < t /\ (turns[t].parent # Root => turns[t].parent \in 1 .. Len(turns))
      BY <1>3, <2>3, <3>1 DEF HistoryReadable, Root
    <3>3. turns[t].parent # Root => turns'[turns'[t].parent].conv = turns'[t].conv
      BY <1>3, <2>3, <3>1, <3>2 DEF HistoryReadable
    <3>4. ASSUME NEW u \in 1 .. n, u # t, turns'[u].conv = turns'[t].conv,
                 turns'[u].parent = turns'[t].parent
          PROVE  turns'[t].parent # Root /\ turns'[u].idx # turns'[t].idx
      <4>1. CASE u = n
        BY <1>1, <1>3, <1>8, <2>3, <3>1, <3>4, <4>1
      <4>2. CASE u \in 1 .. Len(turns)
        BY <1>3, <2>3, <3>1, <3>4, <4>2 DEF HistoryReadable
      <4>3. QED
        BY <1>3, <4>1, <4>2
    <3>5. QED
      BY <3>1, <3>2, <3>3, <3>4
  <2>4. QED
    BY <1>3, <2>2, <2>3
<1>10. DeletedIsFinal'
  <2>1. SUFFICES ASSUME NEW t \in 1 .. n, conv[turns'[t].conv] \in {"deleted", "erased"}
                 PROVE  turns'[t].purged /\ turns'[t].status # "streaming"
    BY <1>2, <1>3 DEF DeletedIsFinal
  <2>2. t \in 1 .. Len(turns)
    BY <1>1, <1>2, <1>3, <2>1
  <2>3. QED
    BY <1>3, <2>1, <2>2 DEF DeletedIsFinal
<1>11. \A t \in 1 .. Len(turns') : turns'[t].idx <= t
  BY <1>1, <1>3
<1>12. QED
  BY <1>2, <1>3, <1>4, <1>5, <1>9, <1>10, <1>11

LEMMA SettlingKeepsInv == ConvInv /\ RowsSettle => ConvInv' /\ TurnsMove
<1> SUFFICES ASSUME ConvInv, RowsSettle
             PROVE  ConvInv' /\ TurnsMove
  OBVIOUS
<1>1. DOMAIN turns = 1 .. Len(turns) /\ DOMAIN turns' = 1 .. Len(turns) /\ Len(turns) \in Nat
  BY DEF ConvInv, RowsSettle
<1>2. \A t \in 1 .. Len(turns) : turns[t] \in Row
  BY DEF ConvInv
<1>3. \A t \in 1 .. Len(turns) : turns[t].parent \in Nat /\ turns[t].parent < t
  BY <1>1, <1>2 DEF ConvInv, HistoryReadable, Row
<1>4. \A t \in 1 .. Len(turns) : /\ turns'[t].conv = turns[t].conv
                                  /\ turns'[t].parent = turns[t].parent
                                  /\ turns'[t].idx = turns[t].idx
  BY DEF RowsSettle
<1>5. HistoryReadable'
  <2>1. HistoryReadable
    BY DEF ConvInv
  <2>2. QED
    BY <1>1, <1>3, <1>4, <2>1 DEF HistoryReadable, Root
<1>6. DeletedIsFinal'
  BY <1>1 DEF DeletedIsFinal, RowsSettle
<1>7. /\ conv' \in [Conv -> ConvStatus]
      /\ turns' \in Seq(Row)
      /\ Len(turns') = Len(turns) /\ Len(turns) <= MaxTurns
  BY DEF ConvInv, RowsSettle
<1>8. \A t \in 1 .. Len(turns) : turns'[t].idx <= t
  BY <1>4 DEF ConvInv
<1>9. TurnsMove
  BY <1>1, <1>7 DEF TurnsMove, RowsSettle
<1>10. QED
  BY <1>5, <1>6, <1>7, <1>8, <1>9 DEF ConvInv

LEMMA StoreStepKeepsInv == ConvInv /\ StoreStep => ConvInv' /\ TurnsMove
BY AppendKeepsInv, SettlingKeepsInv DEF StoreStep, RowAppended

-----------------------------------------------------------------------------
(* The operations of the store are such steps                              *)

Less == {ss \in Nat \X Nat : ss[1] < ss[2]}

LEMMA LessWellFounded == IsWellFoundedOn(Less, Nat)
BY NatLessThanWellFounded DEF OpToRel, Less

LEMMA MaxExists ==
    ASSUME NEW n \in Nat, NEW T, T \subseteq 0 .. n, T # {}
    PROVE  \E m \in T : \A j \in T : j <= m
<1> DEFINE U == {n - i : i \in T}
<1>1. \A i \in T : n - i \in Nat
  OBVIOUS
<1>2. U \subseteq Nat /\ U # {}
  BY <1>1
<1>3. PICK x \in U : \A y \in U : ~(<<y, x>> \in Less)
  BY <1>2, LessWellFounded, WFMin
<1>4. PICK m \in T : x = n - m
  OBVIOUS
<1>5. \A j \in T : ~(n - j < n - m)
  BY <1>2, <1>3, <1>4 DEF Less
<1>6. QED
  BY <1>1, <1>5

\* The next sibling index is a number, and small.
LEMMA NextSiblingType ==
    ASSUME ConvInv, NEW c, NEW p
    PROVE  NextSibling(c, p) \in Nat /\ NextSibling(c, p) <= Len(turns) + 1
<1>1. Len(turns) \in Nat /\ DOMAIN turns = 1 .. Len(turns) /\ Children(c, p) \subseteq DOMAIN turns
  BY DEF ConvInv, Children, OwnTurns
<1>2. \A t \in DOMAIN turns : turns[t] \in Row
  BY DEF ConvInv
<1>3. \A t \in DOMAIN turns : turns[t].idx \in 0 .. Len(turns)
  BY <1>1, <1>2 DEF ConvInv, Row
<1>4. Taken(c, p) \subseteq 0 .. Len(turns)
  BY <1>1, <1>3 DEF Taken
<1>5. PICK T, n : T = Taken(c, p) /\ n = Len(turns)
  OBVIOUS
<1>6. T # {} => \E m \in T : \A j \in T : j <= m
  BY <1>1, <1>4, <1>5, MaxExists
<1>7. QED
  BY <1>1, <1>4, <1>5, <1>6 DEF NextSibling

LEMMA SeqOfFunction ==
    ASSUME NEW S, NEW n \in Nat, NEW f \in [1 .. n -> S]
    PROVE  f \in Seq(S) /\ Len(f) = n
OBVIOUS

\* Rows rewritten one by one.
LEMMA RowsRewritten ==
    ASSUME ConvInv, conv' \in [Conv -> ConvStatus], NEW f \in [DOMAIN turns -> Row], turns' = f,
           \A t \in DOMAIN turns :
              /\ f[t].conv = turns[t].conv
              /\ f[t].parent = turns[t].parent
              /\ f[t].idx = turns[t].idx
              /\ f[t].role = turns[t].role
              /\ f[t].by = turns[t].by
              /\ \/ f[t].status = turns[t].status
                 \/ turns[t].status = "streaming" /\ f[t].status \in TerminalTurnStatus
              /\ conv'[turns[t].conv] \in {"deleted", "erased"} =>
                    f[t].purged /\ f[t].status # "streaming"
    PROVE  RowsSettle
<1>1. DOMAIN turns = 1 .. Len(turns) /\ Len(turns) \in Nat
  BY DEF ConvInv
<1>2. turns' \in Seq(Row) /\ Len(turns') = Len(turns)
  BY <1>1, SeqOfFunction
<1>3. QED
  BY <1>1, <1>2 DEF RowsSettle

LEMMA RowFacts ==
    ASSUME ConvInv, NEW t \in DOMAIN turns
    PROVE  /\ turns[t] \in Row
           /\ Purged(turns[t]) \in Row
           /\ Purged(turns[t]).conv = turns[t].conv
           /\ Purged(turns[t]).parent = turns[t].parent
           /\ Purged(turns[t]).idx = turns[t].idx
           /\ Purged(turns[t]).role = turns[t].role
           /\ Purged(turns[t]).by = turns[t].by
           /\ Purged(turns[t]).purged
           /\ Purged(turns[t]).status # "streaming"
           /\ \/ Purged(turns[t]).status = turns[t].status
              \/ turns[t].status = "streaming" /\ Purged(turns[t]).status \in TerminalTurnStatus
<1>1. turns[t] \in Row
  BY DEF ConvInv
<1>2. QED
  BY <1>1 DEF Row, Purged, TurnStatus, TerminalTurnStatus

LEMMA DeletionSettles ==
    ASSUME ConvInv, NEW D \in SUBSET Conv, NEW status,
           \A c \in D : status[c] \in {"pendingTombstone", "pendingErase"},
           CompleteDeletion(D, status)
    PROVE  RowsSettle
<1> DEFINE S == {t \in DOMAIN turns : turns[t].conv \in D}
<1>1. turns' = PurgedTurns(S) /\ conv' = [c \in Conv |-> IF c \in D THEN Completed(status[c]) ELSE conv[c]]
  BY DEF CompleteDeletion
<1>2. conv' \in [Conv -> ConvStatus] /\ \A c \in Conv \ D : conv'[c] = conv[c]
  BY <1>1 DEF ConvInv, ConvStatus, Completed
<1>3. \A t \in DOMAIN turns : turns[t].conv \in Conv
  BY RowFacts DEF Row
<1>4. PurgedTurns(S) \in [DOMAIN turns -> Row]
  BY RowFacts DEF PurgedTurns
<1>5. \A t \in DOMAIN turns : PurgedTurns(S)[t] = IF t \in S THEN Purged(turns[t]) ELSE turns[t]
  BY DEF PurgedTurns
<1>6. \A t \in DOMAIN turns \ S : conv'[turns[t].conv] \in {"deleted", "erased"} =>
          turns[t].purged /\ turns[t].status # "streaming"
  BY <1>2, <1>3 DEF ConvInv, DeletedIsFinal
<1>7. QED
  BY <1>1, <1>2, <1>4, <1>5, <1>6, RowFacts, RowsRewritten

LEMMA ConversationSettles ==
    ASSUME ConvInv,
           \/ \E c \in Conv : CreateConversation(c) \/ ArchiveConversation(c) \/ UnarchiveConversation(c)
           \/ UNCHANGED convVars
    PROVE  RowsSettle
<1>1. turns' = turns /\ conv' \in [Conv -> ConvStatus]
      /\ \A c \in Conv : conv'[c] \in {"deleted", "erased"} => conv'[c] = conv[c]
  BY DEF ConvInv, ConvStatus, CreateConversation, ArchiveConversation, UnarchiveConversation, convVars
<1>2. turns \in [DOMAIN turns -> Row] /\ \A t \in DOMAIN turns : turns[t].conv \in Conv
  BY RowFacts DEF ConvInv, Row
<1>3. QED
  BY <1>1, <1>2, RowsRewritten DEF ConvInv, DeletedIsFinal

LEMMA DeleteSettles ==
    ASSUME ConvInv, NEW c \in Conv, NEW mode \in {"tombstone", "erase"}, DeleteConversation(c, mode)
    PROVE  RowsSettle
<1>1. PICK status : status = [conv EXCEPT ![c] = Pending(mode)]
  OBVIOUS
<1>2. CompleteDeletion({c}, status)
  BY <1>1 DEF DeleteConversation, CompleteDeletion
<1>3. status[c] \in {"pendingTombstone", "pendingErase"}
  BY <1>1 DEF ConvInv, Pending
<1>4. QED
  BY <1>2, <1>3, DeletionSettles

LEMMA CutDeletionSettles ==
    ASSUME ConvInv, NEW c \in Conv, NEW mode \in {"tombstone", "erase"}, NEW last,
           DeletionCutShort(c, mode, last)
    PROVE  RowsSettle
<1> DEFINE S == {t \in DOMAIN turns : turns[t].conv = c /\ t <= last}
<1>1. turns' = PurgedTurns(S) /\ conv' = [conv EXCEPT ![c] = Pending(mode)]
  BY DEF DeletionCutShort
<1>2. conv' \in [Conv -> ConvStatus]
      /\ \A d \in Conv : conv'[d] \in {"deleted", "erased"} => conv'[d] = conv[d]
  BY <1>1 DEF ConvInv, ConvStatus, Pending
<1>3. \A t \in DOMAIN turns : turns[t].conv \in Conv
  BY RowFacts DEF Row
<1>4. PurgedTurns(S) \in [DOMAIN turns -> Row]
  BY RowFacts DEF PurgedTurns
<1>5. \A t \in DOMAIN turns : PurgedTurns(S)[t] = IF t \in S THEN Purged(turns[t]) ELSE turns[t]
  BY DEF PurgedTurns
<1>6. \A t \in DOMAIN turns : conv'[turns[t].conv] \in {"deleted", "erased"} =>
          turns[t].purged /\ turns[t].status # "streaming"
  BY <1>2, <1>3 DEF ConvInv, DeletedIsFinal
<1> HIDE DEF S
<1>7. QED
  BY <1>1, <1>2, <1>4, <1>5, <1>6, RowFacts, RowsRewritten

LEMMA RetentionSettles ==
    ASSUME ConvInv, NEW E \in SUBSET Conv, EnforceRetention(E)
    PROVE  RowsSettle
<1> DEFINE status == [c \in Conv |-> "pendingTombstone"]
<1>1. CompleteDeletion(E, status)
  BY DEF EnforceRetention
<1>2. \A c \in E : status[c] \in {"pendingTombstone", "pendingErase"}
  OBVIOUS
<1> HIDE DEF status
<1>3. QED
  BY <1>1, <1>2, DeletionSettles

LEMMA RecoverySettles ==
    ASSUME ConvInv, RecoverConversations
    PROVE  RowsSettle
<1> DEFINE pending == {c \in Conv : conv[c] \in {"pendingTombstone", "pendingErase"}}
           recovered(turn) ==
               IF turn.status = "streaming" THEN [turn EXCEPT !.status = "interrupted"] ELSE turn
           f == [t \in DOMAIN turns |-> IF turns[t].conv \in pending THEN Purged(turns[t])
                                                                     ELSE recovered(turns[t])]
<1>1. turns' = f /\ conv' = [c \in Conv |-> Completed(conv[c])]
  BY DEF RecoverConversations
<1>2. conv' \in [Conv -> ConvStatus] /\ \A c \in Conv \ pending : conv'[c] = conv[c]
  BY <1>1 DEF ConvInv, ConvStatus, Completed
<1>3. ASSUME NEW t \in DOMAIN turns
      PROVE  /\ recovered(turns[t]) \in Row
             /\ recovered(turns[t]).conv = turns[t].conv
             /\ recovered(turns[t]).parent = turns[t].parent
             /\ recovered(turns[t]).idx = turns[t].idx
             /\ recovered(turns[t]).role = turns[t].role
             /\ recovered(turns[t]).by = turns[t].by
             /\ recovered(turns[t]).purged = turns[t].purged
             /\ recovered(turns[t]).status # "streaming"
             /\ \/ recovered(turns[t]).status = turns[t].status
                \/ turns[t].status = "streaming" /\ recovered(turns[t]).status \in TerminalTurnStatus
  BY <1>3, RowFacts DEF Row, TurnStatus, TerminalTurnStatus
<1>4. \A t \in DOMAIN turns : turns[t].conv \in Conv
  BY RowFacts DEF Row
<1>5. \A t \in DOMAIN turns : turns[t].conv \notin pending /\ conv'[turns[t].conv] \in {"deleted", "erased"}
                                => turns[t].purged
  BY <1>2, <1>4 DEF ConvInv, DeletedIsFinal
<1> HIDE DEF recovered, pending
<1>6. f \in [DOMAIN turns -> Row]
  BY <1>3, RowFacts
<1>7. \A t \in DOMAIN turns : f[t] = IF turns[t].conv \in pending THEN Purged(turns[t]) ELSE recovered(turns[t])
  OBVIOUS
<1> HIDE DEF f
<1>8. QED
  BY <1>1, <1>2, <1>3, <1>5, <1>6, <1>7, RowFacts, RowsRewritten

\* Some live turns are settled.
LEMMA AdvanceSettles ==
    ASSUME ConvInv, NEW S, NEW status \in TerminalTurnStatus, conv' = conv,
           \A t \in S \cap DOMAIN turns : MayAdvance(t),
           turns' = [t \in DOMAIN turns |-> IF t \in S THEN [turns[t] EXCEPT !.status = status]
                                                       ELSE turns[t]]
    PROVE  RowsSettle
<1> DEFINE f == [t \in DOMAIN turns |-> IF t \in S THEN [turns[t] EXCEPT !.status = status] ELSE turns[t]]
<1>1. ASSUME NEW t \in DOMAIN turns
      PROVE  /\ f[t] \in Row
             /\ f[t].conv = turns[t].conv
             /\ f[t].parent = turns[t].parent
             /\ f[t].idx = turns[t].idx
             /\ f[t].role = turns[t].role
             /\ f[t].by = turns[t].by
             /\ \/ f[t].status = turns[t].status
                \/ turns[t].status = "streaming" /\ f[t].status \in TerminalTurnStatus
             /\ conv[turns[t].conv] \in {"deleted", "erased"} => f[t].purged /\ f[t].status # "streaming"
  <2>1. turns[t] \in Row
    BY RowFacts
  <2>2. CASE t \in S
    <3>1. turns[t].status = "streaming" /\ conv[turns[t].conv] \notin {"deleted", "erased"}
      BY <2>2 DEF MayAdvance, Listable
    <3>2. QED
      BY <2>1, <2>2, <3>1 DEF Row, TurnStatus
  <2>3. CASE t \notin S
    BY <2>1, <2>3 DEF ConvInv, DeletedIsFinal
  <2>4. QED
    BY <2>2, <2>3
<1>2. f \in [DOMAIN turns -> Row] /\ turns' = f
  BY <1>1
<1> HIDE DEF f
<1>3. QED
  BY <1>1, <1>2, RowsRewritten DEF ConvInv

LEMMA AdvanceTurnSettles ==
    ASSUME ConvInv, NEW t, NEW status \in TerminalTurnStatus, AdvanceTurn(t, status)
    PROVE  RowsSettle
<1>1. turns' = [turns EXCEPT ![t].status = status] /\ MayAdvance(t) /\ conv' = conv
  BY DEF AdvanceTurn
<1>2. PICK S : S = {t}
  OBVIOUS
<1>3. turns' = [u \in DOMAIN turns |-> IF u \in S THEN [turns[u] EXCEPT !.status = status] ELSE turns[u]]
  BY <1>1, <1>2 DEF ConvInv
<1>4. \A u \in S \cap DOMAIN turns : MayAdvance(u)
  BY <1>1, <1>2
<1>5. QED
  BY <1>1, <1>3, <1>4, AdvanceSettles

LEMMA AppendIsStep ==
    ASSUME ConvInv, NEW c \in Conv, NEW p, NEW i \in Nat, NEW role \in Role,
           NEW status \in TurnStatus, NEW by \in Writer, i <= Len(turns) + 1,
           AppendTurn(c, p, i, role, status, by)
    PROVE  StoreStep
<1>1. p \in Nat
  BY DEF AppendTurn, AppendAllowed, OwnTurns, Root, ConvInv
<1>2. QED
  BY <1>1 DEF StoreStep, RowAppended

LEMMA BranchIsStep ==
    ASSUME ConvInv, NEW c \in Conv, NEW p, NEW role \in Role,
           NEW status \in TurnStatus, NEW by \in Writer,
           BranchTurn(c, p, role, status, by)
    PROVE  StoreStep
<1>1. PICK i : i = NextSibling(c, p)
  OBVIOUS
<1>2. i \in Nat /\ i <= Len(turns) + 1
  BY <1>1, NextSiblingType
<1>3. AppendTurn(c, p, i, role, status, by)
  BY <1>1 DEF BranchTurn
<1>4. QED
  BY <1>2, <1>3, AppendIsStep

LEMMA IdleIsStep == ConvInv /\ UNCHANGED convVars => StoreStep
BY ConversationSettles DEF StoreStep

-----------------------------------------------------------------------------
(* The response store, and what one of its steps is                         *)

RespMove ==
    /\ ResponsesTypeOK'
    /\ \A r \in Request :
          \/ resp'[r].state = resp[r].state
          \/ resp[r].state = "absent" /\ resp'[r].state = "in_progress"
          \/ resp[r].state = "in_progress" /\ resp'[r].state \in TerminalState

LEMMA BeginMoves ==
    ASSUME ResponsesTypeOK, NEW r \in Request, Begin(r)
    PROVE  RespMove
BY DEF ResponsesTypeOK, Begin, RespMove, LifecycleState, TerminalState

LEMMA AdvanceMoves ==
    ASSUME ResponsesTypeOK, NEW r \in Request, NEW c \in Thread, NEW n \in Nat,
           NEW state \in {"in_progress"} \cup TerminalState, Advance(r, c, state, n)
    PROVE  RespMove
<1>1. resp[r].state = "in_progress"
  BY DEF Advance, MayCommit
<1>2. ResponsesTypeOK'
  BY DEF ResponsesTypeOK, Advance, LifecycleState, TerminalState
<1>3. \A q \in Request : resp'[q].state = IF q = r THEN state ELSE resp[q].state
  BY DEF ResponsesTypeOK, Advance
<1>4. QED
  BY <1>1, <1>2, <1>3 DEF RespMove

LEMMA UnnumberedMoves ==
    ASSUME ResponsesTypeOK, NEW r \in Request, NEW state \in TerminalState,
           AdvanceUnnumbered(r, state)
    PROVE  RespMove
<1>1. ResponsesTypeOK'
  BY DEF ResponsesTypeOK, AdvanceUnnumbered, LifecycleState, TerminalState
<1>2. \A q \in Request : resp'[q].state = IF q = r THEN state ELSE resp[q].state
  BY DEF ResponsesTypeOK, AdvanceUnnumbered
<1>3. QED
  BY <1>1, <1>2 DEF RespMove, AdvanceUnnumbered

LEMMA DrawMoves ==
    ASSUME ResponsesTypeOK, NEW c \in Thread, DrawSeq(c)
    PROVE  RespMove
BY DEF ResponsesTypeOK, DrawSeq, RespMove

LEMMA RespIdles == ResponsesTypeOK /\ UNCHANGED respVars => RespMove
BY DEF ResponsesTypeOK, RespMove, respVars

LEMMA ResponsesRecover ==
    ASSUME ResponsesTypeOK, RecoverResponses
    PROVE  RespMove
<1>1. \A r \in Request : resp'[r] = IF resp[r].state = "in_progress"
                                  THEN [resp[r] EXCEPT !.state = "interrupted"] ELSE resp[r]
  BY DEF RecoverResponses
<1>2. resp' = [r \in Request |-> resp'[r]] /\ convSeq' = convSeq
  BY DEF RecoverResponses
<1>3. \A r \in Request : /\ resp'[r] \in [state : LifecycleState, version : Nat, committed : Nat]
                         /\ \/ resp'[r].state = resp[r].state
                            \/ resp[r].state = "in_progress" /\ resp'[r].state = "interrupted"
  BY <1>1 DEF ResponsesTypeOK, LifecycleState, TerminalState
<1>4. QED
  BY <1>2, <1>3 DEF RespMove, ResponsesTypeOK, TerminalState

-----------------------------------------------------------------------------
(* The streams: what is known of each, and that every action is one step of  *)
(* each store that keeps it                                                 *)

LoopInv ==
    /\ task \in [Streams -> TaskState]
    /\ thread \in [Streams -> ThreadState]
    /\ home \in [Streams -> Conv]
    /\ lineage = [s \in Streams |-> lineage[s]]
    /\ seq \in [Streams -> Nat]
    /\ outcome \in [Streams -> StreamOutcome \cup {"none"}]
    /\ verdict \in [Streams -> TerminalTurnStatus \cup {"none"}]
    /\ \A s \in Streams :
          \/ thread[s] \in {"drawnTerminal", "gotTerminal"}
          \/ task[s] = "answering"
          => outcome[s] \in StreamOutcome
    /\ \A s \in Advanced : thread[s] = "gotTerminal" => verdict[s] \in TerminalTurnStatus
    /\ \A s \in Sends : task[s] = "settling" => verdict[s] \in TerminalTurnStatus

\* A place that was read for an append has an index no append has outgrown.
LineageFits == \A s \in Streams : lineage[s].idx \in Nat /\ lineage[s].idx <= Len(turns) + 1

LineageMove ==
    \A s \in Streams : \/ lineage'[s] = lineage[s]
                       \/ lineage'[s].idx \in Nat /\ lineage'[s].idx <= Len(turns) + 1

ChatInv == ConvInv /\ ResponsesTypeOK /\ LoopInv /\ LineageFits

Keeps == StoreStep /\ RespMove /\ LoopInv' /\ LineageMove

LEMMA StepKeepsInv == ChatInv /\ Keeps => ChatInv'
<1> SUFFICES ASSUME ChatInv, Keeps
             PROVE  ChatInv'
  OBVIOUS
<1>1. ConvInv' /\ TurnsMove
  BY StoreStepKeepsInv DEF ChatInv, Keeps
<1>2. Len(turns) \in Nat /\ Len(turns') \in Nat /\ Len(turns) <= Len(turns')
  BY <1>1 DEF ChatInv, ConvInv, TurnsMove
<1>3. LineageFits'
  BY <1>2 DEF ChatInv, Keeps, LineageFits, LineageMove
<1>4. QED
  BY <1>1, <1>3 DEF ChatInv, Keeps, RespMove

\* The sets of streams, and the outcomes of a stream.
LEMMA StreamSets ==
    /\ Streams = Request /\ Conv = Thread /\ Streams \subseteq Writer
    /\ Sends \subseteq Streams /\ Advanced \subseteq Streams /\ Sends \cap Advanced = {}
    /\ Branches \subseteq Advanced /\ Runs \subseteq Advanced
    /\ DOMAIN Batch = 1 .. Len(Batch) /\ Len(Batch) \in Nat
    /\ \A i \in DOMAIN Batch : Batch[i] \in Branches
BY StreamAssumption DEF Streams, Advanced, Branches

LEMMA OutcomeFacts ==
    /\ \A o \in StreamOutcome : LifecycleFor(o) \in TerminalState
                                /\ TurnStatusFor(o) \in TerminalTurnStatus
    /\ \A o : PartialOutcome(o) \in StreamOutcome
BY DEF StreamOutcome, LifecycleFor, TurnStatusFor, PartialOutcome, TerminalState, TerminalTurnStatus

LEMMA FinishTask ==
    ASSUME LoopInv, NEW s \in Streams, NEW how \in {"over", "left"}, Finish(s, how)
    PROVE  task' \in [Streams -> TaskState] /\ \A b \in Streams : task'[b] = IF b = s THEN how ELSE task[b]
BY DEF Finish, LoopInv, TaskState

\* When only tasks move, and to what needs no outcome and no verdict.
LEMMA OnlyTasks ==
    ASSUME LoopInv, task' \in [Streams -> TaskState],
           \A b \in Streams : task'[b] = task[b] \/ task'[b] \notin {"answering", "settling"},
           UNCHANGED <<thread, home, lineage, seq, outcome, verdict>>
    PROVE  LoopInv' /\ LineageMove
BY StreamSets DEF LoopInv, LineageMove

LEMMA SendReadsKeeps ==
    ASSUME ChatInv, NEW s \in Streams, NEW c \in Conv, SendReads(s, c)
    PROVE  Keeps
<1>1. StoreStep /\ RespMove
  BY IdleIsStep, RespIdles DEF SendReads, ChatInv
<1>2. PICK p : p = Tip(c)
  OBVIOUS
<1>3. SendLineage(c).idx = NextSibling(c, p)
  BY <1>2 DEF SendLineage
<1>4. PICK place : place = SendLineage(c)
  OBVIOUS
<1>5. place.idx \in Nat /\ place.idx <= Len(turns) + 1
  BY <1>3, <1>4, NextSiblingType DEF ChatInv
<1>6. lineage' = [lineage EXCEPT ![s] = place]
  BY <1>4 DEF SendReads
<1>7. LineageMove
  BY <1>5, <1>6 DEF LineageMove, ChatInv, LoopInv
<1>8. LoopInv'
  <2>1. lineage' = [t \in Streams |-> lineage'[t]]
    BY <1>6 DEF ChatInv, LoopInv
  <2>2. task' \in [Streams -> TaskState] /\ \A b \in Streams : task'[b] = task[b] \/ task'[b] = "read"
    BY DEF SendReads, ChatInv, LoopInv, TaskState
  <2>3. home' \in [Streams -> Conv]
    BY DEF SendReads, ChatInv, LoopInv
  <2>4. QED
    BY <2>1, <2>2, <2>3, StreamSets DEF SendReads, ChatInv, LoopInv
<1>9. QED
  BY <1>1, <1>7, <1>8 DEF Keeps

LEMMA SendWritesKeeps ==
    ASSUME ChatInv, NEW s \in Streams, SendWrites(s)
    PROVE  Keeps
<1> DEFINE c == home[s]
           at == lineage[s]
<1>1. s \in Streams /\ c \in Conv /\ at.idx \in Nat /\ at.idx <= Len(turns) + 1
  BY StreamSets DEF ChatInv, LoopInv, LineageFits
<1>2. CASE AppendAllowed(c, at.parent, at.idx)
  <2>1. PICK p, i : p = at.parent /\ i = at.idx
    OBVIOUS
  <2>2. PICK d \in Conv : d = c
    BY <1>1
  <2>3. AppendTurn(d, p, i, "user", "complete", s) /\ Begin(s)
    BY <1>2, <2>1, <2>2 DEF SendWrites
  <2>4. StoreStep
    BY <1>1, <2>1, <2>3, StreamSets, AppendIsStep DEF ChatInv, Role, TurnStatus, TerminalTurnStatus
  <2>5. RespMove
    BY <1>1, <2>3, StreamSets, BeginMoves DEF ChatInv
  <2>6. LoopInv' /\ LineageMove
    BY <1>1, <1>2, OnlyTasks DEF SendWrites, ChatInv, LoopInv, TaskState
  <2>7. QED
    BY <2>4, <2>5, <2>6 DEF Keeps
<1>3. CASE ~AppendAllowed(c, at.parent, at.idx)
  <2>1. StoreStep /\ RespMove
    BY <1>3, IdleIsStep, RespIdles DEF SendWrites, ChatInv
  <2>2. LoopInv' /\ LineageMove
    BY <1>1, <1>3, OnlyTasks, FinishTask DEF SendWrites, ChatInv
  <2>3. QED
    BY <2>1, <2>2 DEF Keeps
<1>4. QED
  BY <1>2, <1>3

LEMMA RunForksKeeps ==
    ASSUME ChatInv, NEW s \in Streams, NEW c \in Conv, NEW p, RunForks(s, c, p)
    PROVE  Keeps
<1>1. StoreStep
  BY StreamSets, BranchIsStep DEF RunForks, ChatInv, Role, TurnStatus
<1>2. RespMove
  BY RespIdles DEF RunForks, ChatInv
<1>3. LoopInv' /\ LineageMove
  BY StreamSets DEF RunForks, ChatInv, LoopInv, LineageMove, TaskState
<1>4. QED
  BY <1>1, <1>2, <1>3 DEF Keeps

LEMMA DispatchStartsKeeps ==
    ASSUME ChatInv, NEW c \in Conv, NEW p, DispatchStarts(c, p)
    PROVE  Keeps
<1>1. PICK s \in Branches : s = Batch[1]
  BY StreamSets, StreamAssumption
<1>2. StoreStep
  BY <1>1, StreamSets, BranchIsStep DEF DispatchStarts, ChatInv, Role, TurnStatus
<1>3. RespMove
  BY RespIdles DEF DispatchStarts, ChatInv
<1>4. LoopInv' /\ LineageMove
  BY <1>1, StreamSets DEF DispatchStarts, ChatInv, LoopInv, LineageMove, TaskState
<1>5. QED
  BY <1>2, <1>3, <1>4 DEF Keeps

LEMMA DispatchForksKeeps ==
    ASSUME ChatInv, NEW i \in DOMAIN Batch, DispatchForks(i)
    PROVE  Keeps
<1>1. PICK s \in Branches : s = Batch[i]
  BY StreamSets
<1>2. PICK p : p = turns[base[Batch[1]]].parent
  OBVIOUS
<1>3. PICK c \in Conv : c = home[s]
  BY <1>1, StreamSets DEF ChatInv, LoopInv
<1>4. BranchTurn(c, p, "assistant", "streaming", s)
  BY <1>1, <1>2, <1>3 DEF DispatchForks
<1>5. StoreStep
  BY <1>4, StreamSets, BranchIsStep DEF ChatInv, Role, TurnStatus
<1>6. RespMove
  BY RespIdles DEF DispatchForks, ChatInv
<1>7. task' \in [Streams -> TaskState]
      /\ \A b \in Streams : task'[b] = task[b] \/ task'[b] \in {"forked", "ready"}
  BY <1>1, StreamSets DEF DispatchForks, ChatInv, LoopInv, TaskState
<1>8. LoopInv' /\ LineageMove
  BY <1>7, OnlyTasks DEF DispatchForks, ChatInv
<1>9. QED
  BY <1>5, <1>6, <1>8 DEF Keeps

\* The branches that were forked before the refused one settle.
LEMMA ForkFailureSettles ==
    ASSUME ConvInv, NEW i \in DOMAIN Batch, DispatchForkFails(i)
    PROVE  RowsSettle
<1> DEFINE forked == {base[Batch[j]] : j \in 1 .. i - 1}
<1>1. PICK S : S = {t \in forked : MayAdvance(t)}
  OBVIOUS
<1>2. /\ turns' = [t \in DOMAIN turns |-> IF t \in S THEN [turns[t] EXCEPT !.status = "failed"]
                                                     ELSE turns[t]]
      /\ conv' = conv /\ \A t \in S \cap DOMAIN turns : MayAdvance(t)
  BY <1>1 DEF DispatchForkFails
<1>3. QED
  BY <1>2, AdvanceSettles DEF TerminalTurnStatus

LEMMA DispatchForkFailsKeeps ==
    ASSUME ChatInv, NEW i \in DOMAIN Batch, DispatchForkFails(i)
    PROVE  Keeps
<1>1. StoreStep
  BY ForkFailureSettles DEF StoreStep, ChatInv
<1>2. RespMove
  BY RespIdles DEF DispatchForkFails, ChatInv
<1>3. task' \in [Streams -> TaskState] /\ \A b \in Streams : task'[b] = task[b] \/ task'[b] = "over"
  BY DEF DispatchForkFails, ChatInv, LoopInv, TaskState
<1>4. LoopInv' /\ LineageMove
  BY <1>3, OnlyTasks DEF DispatchForkFails, ChatInv
<1>5. QED
  BY <1>1, <1>2, <1>4 DEF Keeps

LEMMA BodyKeeps ==
    ASSUME ChatInv, NEW s \in Streams,
           BodyStarts(s) \/ BodyNeverStarts(s) \/ BranchesStart \/ LeaveAtAnnounce \/ ClientLeaves(s)
    PROVE  Keeps
<1>1. StoreStep /\ RespMove
  BY IdleIsStep, RespIdles
  DEF ChatInv, BodyStarts, BodyNeverStarts, BranchesStart, LeaveAtAnnounce, ClientLeaves
<1>2. /\ task' \in [Streams -> TaskState]
      /\ \A b \in Streams : task'[b] = task[b] \/ task'[b] \in {"announced", "pulling", "lost", "left", "leaving"}
  BY DEF ChatInv, LoopInv, TaskState, SetTasks,
         BodyStarts, BodyNeverStarts, BranchesStart, LeaveAtAnnounce, ClientLeaves
<1>3. /\ thread' \in [Streams -> ThreadState]
      /\ \A b \in Streams : thread'[b] = thread[b] \/ thread'[b] = "queued"
  BY DEF ChatInv, LoopInv, ThreadState, Queue,
         BodyStarts, BodyNeverStarts, BranchesStart, LeaveAtAnnounce, ClientLeaves
<1>4. UNCHANGED <<home, lineage, seq, outcome, verdict>>
  BY DEF BodyStarts, BodyNeverStarts, BranchesStart, LeaveAtAnnounce, ClientLeaves
<1>5. LoopInv' /\ LineageMove
  BY <1>2, <1>3, <1>4, StreamSets DEF ChatInv, LoopInv, LineageMove
<1>6. QED
  BY <1>1, <1>5 DEF Keeps

LEMMA ThreadKeeps ==
    ASSUME ChatInv, NEW s \in Streams, ThreadStep(s)
    PROVE  Keeps
<1>1. s \in Request /\ home[s] \in Conv /\ home[s] \in Thread /\ seq[s] \in Nat
  BY StreamSets DEF ChatInv, LoopInv
<1>2. PICK c \in Conv, n \in Nat : c = home[s] /\ n = seq[s]
  BY <1>1
<1>3. StoreStep /\ lineage' = lineage /\ home' = home /\ task' = task
  BY IdleIsStep DEF ChatInv, ThreadStep, ThreadEnters, ThreadBegins, ThreadReads, ThreadCommits, ThreadSettles
<1>4. SUFFICES RespMove /\ LoopInv'
  BY <1>3 DEF Keeps, LineageMove
<1>5. CASE ThreadEnters(s)
  <2>1. RespMove
    BY <1>5, RespIdles DEF ThreadEnters, ChatInv
  <2>2. LoopInv'
    BY <1>5, StreamSets DEF ThreadEnters, ChatInv, LoopInv, ThreadState, Executing
  <2>3. QED
    BY <2>1, <2>2
<1>6. CASE ThreadBegins(s)
  <2>1. RespMove
    BY <1>1, <1>6, BeginMoves DEF ThreadBegins, ChatInv
  <2>2. LoopInv'
    BY <1>6, StreamSets DEF ThreadBegins, ChatInv, LoopInv, ThreadState, Executing
  <2>3. QED
    BY <2>1, <2>2
<1>7. CASE ThreadReads(s)
  <2>1. RespMove
    BY <1>1, <1>2, <1>7, RespIdles, DrawMoves DEF ThreadReads, ChatInv
  <2>2. seq' \in [Streams -> Nat]
    <3>1. convSeq[home[s]] \in Nat
      BY <1>1 DEF ChatInv, ResponsesTypeOK
    <3>2. QED
      BY <1>1, <1>7, <3>1 DEF ThreadReads, ChatInv, LoopInv
  <2>3. /\ outcome' \in [Streams -> StreamOutcome \cup {"none"}]
        /\ thread' \in [Streams -> ThreadState]
        /\ \A t \in Streams \ {s} : outcome'[t] = outcome[t] /\ thread'[t] = thread[t]
        /\ \/ outcome' = outcome /\ thread'[s] \in {"gotDelta", "drawnDelta"}
           \/ outcome'[s] \in StreamOutcome
        /\ thread'[s] = "gotTerminal" => s \in Sends
        /\ verdict' = verdict
    BY <1>7 DEF ThreadReads, ChatInv, LoopInv, ThreadState, Executing
  <2>4. LoopInv'
    BY <1>3, <2>2, <2>3, StreamSets DEF ChatInv, LoopInv
  <2>5. QED
    BY <2>1, <2>4
<1>8. CASE ThreadCommits(s)
  <2>1. RespMove
    BY <1>1, <1>2, <1>8, RespIdles, AdvanceMoves DEF ThreadCommits, ChatInv
  <2>2. LoopInv'
    BY <1>8, StreamSets DEF ThreadCommits, ChatInv, LoopInv, ThreadState, Executing
  <2>3. QED
    BY <2>1, <2>2
<1>9. CASE ThreadSettles(s)
  <2>1. outcome[s] \in StreamOutcome
    BY <1>9 DEF ThreadSettles, ChatInv, LoopInv
  <2>2. PICK state \in TerminalState, status \in TerminalTurnStatus :
           \/ /\ Advance(s, c, state, n)
              /\ verdict' = [verdict EXCEPT ![s] = status]
              /\ thread' = [thread EXCEPT ![s] = "gotTerminal"]
           \/ /\ UNCHANGED <<respVars, verdict>>
              /\ thread' = [thread EXCEPT ![s] = "closed"]
    <3>1. PICK valid \in BOOLEAN :
             LET invalid == ~valid /\ outcome[s] = "completed"
                 state == IF invalid THEN "interrupted" ELSE LifecycleFor(outcome[s])
                 status == IF invalid THEN "failed" ELSE TurnStatusFor(outcome[s])
             IN  IF MayCommit(s, seq[s])
                 THEN /\ Advance(s, home[s], state, seq[s])
                      /\ verdict' = [verdict EXCEPT ![s] = status]
                      /\ thread' = [thread EXCEPT ![s] = "gotTerminal"]
                 ELSE /\ UNCHANGED <<respVars, verdict>>
                      /\ thread' = [thread EXCEPT ![s] = "closed"]
      BY <1>9 DEF ThreadSettles
    <3>2. PICK state, status :
             /\ state = IF ~valid /\ outcome[s] = "completed" THEN "interrupted"
                                                              ELSE LifecycleFor(outcome[s])
             /\ status = IF ~valid /\ outcome[s] = "completed" THEN "failed"
                                                               ELSE TurnStatusFor(outcome[s])
      OBVIOUS
    <3>3. state \in TerminalState /\ status \in TerminalTurnStatus
      BY <2>1, <3>2, OutcomeFacts DEF TerminalState, TerminalTurnStatus
    <3>4. IF MayCommit(s, n)
          THEN /\ Advance(s, c, state, n)
               /\ verdict' = [verdict EXCEPT ![s] = status]
               /\ thread' = [thread EXCEPT ![s] = "gotTerminal"]
          ELSE /\ UNCHANGED <<respVars, verdict>>
               /\ thread' = [thread EXCEPT ![s] = "closed"]
      BY <1>2, <3>1, <3>2
    <3>5. QED
      BY <3>3, <3>4
  <2>3. RespMove
    BY <1>1, <1>2, <2>2, StreamSets, RespIdles, AdvanceMoves DEF ChatInv
  <2>4. UNCHANGED <<seq, outcome>>
    BY <1>9 DEF ThreadSettles
  <2>5. /\ thread' \in [Streams -> ThreadState]
        /\ verdict' \in [Streams -> TerminalTurnStatus \cup {"none"}]
        /\ \A t \in Streams \ {s} : thread'[t] = thread[t] /\ verdict'[t] = verdict[t]
        /\ \/ thread'[s] = "closed" /\ verdict' = verdict
           \/ thread'[s] = "gotTerminal" /\ verdict'[s] \in TerminalTurnStatus
    <3>1. thread \in [Streams -> ThreadState] /\ verdict \in [Streams -> TerminalTurnStatus \cup {"none"}]
      BY DEF ChatInv, LoopInv
    <3>2. CASE verdict' = [verdict EXCEPT ![s] = status] /\ thread' = [thread EXCEPT ![s] = "gotTerminal"]
      BY <3>1, <3>2 DEF ThreadState
    <3>3. CASE verdict' = verdict /\ thread' = [thread EXCEPT ![s] = "closed"]
      BY <3>1, <3>3 DEF ThreadState
    <3>4. QED
      BY <2>2, <3>2, <3>3
  <2>6. LoopInv'
    BY <1>3, <2>1, <2>4, <2>5, StreamSets DEF ChatInv, LoopInv
  <2>7. QED
    BY <2>3, <2>6
<1>10. QED
  BY <1>5, <1>6, <1>7, <1>8, <1>9 DEF ThreadStep

LEMMA FrameKeeps ==
    ASSUME ChatInv, NEW s \in Streams,
           YieldsDelta(s) \/ PersistAnswer(s) \/ PersistFails(s) \/ CommitAnswer(s) \/ FinishAttempt(s)
    PROVE  Keeps
<1>1. s \in Request /\ s \in Writer /\ home[s] \in Conv /\ home[s] \in Thread /\ seq[s] \in Nat
  BY StreamSets DEF ChatInv, LoopInv
<1>2. PICK c, n, p : c \in Conv /\ n \in Nat /\ c = home[s] /\ n = seq[s] /\ p = base[s]
  BY <1>1
<1>3. CASE YieldsDelta(s)
  <2>1. StoreStep
    BY <1>3, IdleIsStep DEF YieldsDelta, ChatInv
  <2>2. RespMove
    BY <1>1, <1>2, <1>3, RespIdles, AdvanceMoves DEF YieldsDelta, ChatInv
  <2>3. LoopInv' /\ LineageMove
    BY <1>3, StreamSets DEF YieldsDelta, ChatInv, LoopInv, LineageMove, ThreadState
  <2>4. QED
    BY <2>1, <2>2, <2>3 DEF Keeps
<1>4. CASE PersistAnswer(s)
  <2>1. outcome[s] \in StreamOutcome
    BY <1>4 DEF PersistAnswer, ChatInv, LoopInv
  <2>2. PICK status \in TerminalTurnStatus : status = TurnStatusFor(outcome[s])
    BY <2>1, OutcomeFacts
  <2>3. AppendTurn(c, p, 0, "assistant", status, s)
    BY <1>2, <1>4, <2>2 DEF PersistAnswer
  <2>4. StoreStep
    <3>1. PICK i \in Nat : i = 0 /\ i <= Len(turns) + 1
      BY DEF ChatInv, ConvInv
    <3>2. AppendTurn(c, p, i, "assistant", status, s)
      BY <2>3, <3>1
    <3>3. QED
      BY <1>1, <1>2, <3>1, <3>2, AppendIsStep DEF ChatInv, Role, TurnStatus
  <2>5. RespMove
    BY <1>4, RespIdles DEF PersistAnswer, ChatInv
  <2>6. LoopInv' /\ LineageMove
    BY <1>4, <2>1, StreamSets DEF PersistAnswer, ChatInv, LoopInv, LineageMove, TaskState
  <2>7. QED
    BY <2>4, <2>5, <2>6 DEF Keeps
<1>5. CASE PersistFails(s)
  <2>1. PICK state \in TerminalState : state = LifecycleFor("serving_unavailable")
    BY OutcomeFacts DEF StreamOutcome
  <2>2. StoreStep
    BY <1>5, IdleIsStep DEF PersistFails, ChatInv
  <2>3. Advance(s, c, state, n)
    BY <1>2, <1>5, <2>1 DEF PersistFails
  <2>4. RespMove
    BY <1>1, <1>2, <2>3, StreamSets, AdvanceMoves DEF ChatInv
  <2>5. LoopInv' /\ LineageMove
    BY <1>5, OnlyTasks, FinishTask DEF PersistFails, ChatInv
  <2>6. QED
    BY <2>2, <2>4, <2>5 DEF Keeps
<1>6. CASE CommitAnswer(s)
  <2>1. outcome[s] \in StreamOutcome
    BY <1>6 DEF CommitAnswer, ChatInv, LoopInv
  <2>2. PICK state \in TerminalState : state = LifecycleFor(outcome[s])
    BY <2>1, OutcomeFacts
  <2>3. StoreStep
    BY <1>6, IdleIsStep DEF CommitAnswer, ChatInv
  <2>4. Advance(s, c, state, n)
    BY <1>2, <1>6, <2>2 DEF CommitAnswer
  <2>5. RespMove
    BY <1>1, <1>2, <2>4, StreamSets, AdvanceMoves DEF ChatInv
  <2>6. LoopInv' /\ LineageMove
    BY <1>6, OnlyTasks, FinishTask DEF CommitAnswer, ChatInv
  <2>7. QED
    BY <2>3, <2>5, <2>6 DEF Keeps
<1>7. CASE FinishAttempt(s)
  <2>1. PICK status \in TerminalTurnStatus : status = verdict[s]
    BY <1>7 DEF FinishAttempt, ChatInv, LoopInv
  <2>2. StoreStep
    BY <1>2, <1>7, <2>1, AdvanceTurnSettles, IdleIsStep DEF FinishAttempt, ChatInv, StoreStep
  <2>3. RespMove
    BY <1>7, RespIdles DEF FinishAttempt, ChatInv
  <2>4. LoopInv' /\ LineageMove
    BY <1>7, OnlyTasks, FinishTask DEF FinishAttempt, ChatInv
  <2>5. QED
    BY <2>2, <2>3, <2>4 DEF Keeps
<1>8. QED
  BY <1>3, <1>4, <1>5, <1>6, <1>7

LEMMA SettleResponseKeeps ==
    ASSUME ChatInv, NEW s \in Streams, SettleResponse(s)
    PROVE  Keeps
<1>1. s \in Request /\ home[s] \in Conv /\ home[s] \in Thread /\ seq[s] + 1 \in Nat
  BY StreamSets DEF ChatInv, LoopInv
<1>2. PICK c \in Conv, n \in Nat : c = home[s] /\ n = seq[s] + 1
  BY <1>1
<1>3. PICK o \in StreamOutcome : o = PartialOutcome(outcome[s])
  BY OutcomeFacts
<1>4. PICK state \in TerminalState, status \in TerminalTurnStatus :
         state = LifecycleFor(o) /\ status = TurnStatusFor(o)
  BY OutcomeFacts
<1>5. /\ StoreStep
      /\ UNCHANGED <<home, lineage, outcome>>
      /\ task' = [task EXCEPT ![s] = "settling"]
      /\ thread' = [thread EXCEPT ![s] = IF @ \in Executing THEN @ ELSE "closed"]
  BY IdleIsStep DEF SettleResponse, ChatInv
<1>6. CASE s \in Sends
  <2>1. /\ \/ Advance(s, c, state, n)
           \/ UNCHANGED respVars
        /\ verdict' = [verdict EXCEPT ![s] = status]
        /\ seq' = [seq EXCEPT ![s] = n]
    BY <1>2, <1>3, <1>4, <1>6 DEF SettleResponse
  <2>2. RespMove
    BY <1>1, <2>1, StreamSets, RespIdles, AdvanceMoves DEF ChatInv
  <2>3. LoopInv'
    BY <1>5, <1>6, <2>1, StreamSets DEF ChatInv, LoopInv, TaskState, ThreadState, Executing
  <2>4. QED
    BY <1>5, <2>2, <2>3 DEF Keeps, LineageMove
<1>7. CASE s \notin Sends
  <2>1. /\ \/ AdvanceUnnumbered(s, "cancelled")
           \/ UNCHANGED respVars
        /\ UNCHANGED <<verdict, seq>>
    BY <1>7 DEF SettleResponse
  <2>2. RespMove
    BY <1>1, <2>1, RespIdles, UnnumberedMoves DEF ChatInv, TerminalState
  <2>3. LoopInv'
    BY <1>5, <1>7, <2>1, StreamSets DEF ChatInv, LoopInv, TaskState, ThreadState, Executing
  <2>4. QED
    BY <1>5, <2>2, <2>3 DEF Keeps, LineageMove
<1>8. QED
  BY <1>6, <1>7

LEMMA SettleTurnKeeps ==
    ASSUME ChatInv, NEW s \in Streams, SettleTurn(s)
    PROVE  Keeps
<1>1. s \in Writer /\ home[s] \in Conv
  BY StreamSets DEF ChatInv, LoopInv
<1>2. PICK c, p, status : c \in Conv /\ c = home[s] /\ p = base[s] /\ status = verdict[s]
  BY <1>1
<1>3. StoreStep
  <2>1. CASE UNCHANGED convVars
    BY <2>1, IdleIsStep DEF ChatInv
  <2>2. CASE s \in Sends /\ AppendTurn(home[s], base[s], 0, "assistant", verdict[s], s)
    <3>1. status \in TerminalTurnStatus
      BY <1>2, <2>2 DEF SettleTurn, ChatInv, LoopInv
    <3>2. PICK i \in Nat : i = 0 /\ i <= Len(turns) + 1
      BY DEF ChatInv, ConvInv
    <3>3. AppendTurn(c, p, i, "assistant", status, s)
      BY <1>2, <2>2, <3>2
    <3>4. QED
      BY <1>1, <1>2, <3>1, <3>2, <3>3, AppendIsStep DEF ChatInv, Role, TurnStatus
  <2>3. CASE AdvanceTurn(base[s], "cancelled")
    <3>1. AdvanceTurn(p, "cancelled")
      BY <1>2, <2>3
    <3>2. QED
      BY <3>1, AdvanceTurnSettles DEF ChatInv, StoreStep, TerminalTurnStatus
  <2>4. QED
    BY <2>1, <2>2, <2>3 DEF SettleTurn
<1>4. RespMove
  BY RespIdles DEF SettleTurn, ChatInv
<1>5. LoopInv' /\ LineageMove
  BY OnlyTasks, FinishTask DEF SettleTurn, ChatInv
<1>6. QED
  BY <1>3, <1>4, <1>5 DEF Keeps

LEMMA ClientKeeps ==
    ASSUME ChatInv, ClientStep \/ RetentionStep
    PROVE  Keeps
<1>1. RespMove /\ LoopInv' /\ LineageMove
  BY RespIdles DEF ClientStep, RetentionStep, ChatInv, LoopInv, LineageMove, loopVars
<1>2. Client \in Writer /\ ClientStatus \subseteq TurnStatus /\ Len(turns) \in Nat
  BY ConversationAssumption, StreamAssumption DEF ChatInv, ConvInv
<1>3. ASSUME NEW c \in Conv, NEW status \in ClientStatus, NEW p \in {Root} \cup OwnTurns(c),
             NEW i \in 0 .. 1, ClientAppends(c, p, i, status)
      PROVE  StoreStep
  <2>1. i \in Nat /\ i <= Len(turns) + 1
    BY <1>2
  <2>2. AppendTurn(c, p, i, "user", status, Client)
    BY <1>3 DEF ClientAppends
  <2>3. QED
    BY <1>2, <2>1, <2>2, AppendIsStep DEF ChatInv, Role
<1>4. ASSUME NEW c \in Conv, NEW status \in ClientStatus, NEW p, ClientBranches(c, p, status)
      PROVE  StoreStep
  BY <1>2, <1>4, BranchIsStep DEF ClientBranches, ChatInv, Role
<1>5. ASSUME NEW c \in Conv, NEW status \in ClientStatus, NEW t, ClientRetries(c, t, status)
      PROVE  StoreStep
  <2>1. PICK p : p = turns[t].parent
    OBVIOUS
  <2>2. BranchTurn(c, p, "user", status, Client)
    BY <1>5, <2>1 DEF ClientRetries, RetryTurn
  <2>3. QED
    BY <1>2, <2>2, BranchIsStep DEF ChatInv, Role
<1>6. ASSUME NEW status \in ClientStatus, status # "streaming", NEW t, AdvanceTurn(t, status)
      PROVE  StoreStep
  <2>1. status \in TerminalTurnStatus
    BY <1>2, <1>6 DEF TurnStatus
  <2>2. QED
    BY <1>6, <2>1, AdvanceTurnSettles DEF ChatInv, StoreStep
<1>7. ASSUME NEW c \in Conv, CreateConversation(c) \/ ArchiveConversation(c) \/ UnarchiveConversation(c)
      PROVE  StoreStep
  BY <1>7, ConversationSettles DEF ChatInv, StoreStep
<1>8. ASSUME NEW c \in Conv, NEW mode \in {"tombstone", "erase"}, DeleteConversation(c, mode)
      PROVE  StoreStep
  BY <1>8, DeleteSettles DEF ChatInv, StoreStep
<1>9. ASSUME NEW E \in SUBSET Conv, EnforceRetention(E)
      PROVE  StoreStep
  BY <1>9, RetentionSettles DEF ChatInv, StoreStep
<1>10. StoreStep
  BY <1>3, <1>4, <1>5, <1>6, <1>7, <1>8, <1>9 DEF ClientStep, RetentionStep
<1>11. QED
  BY <1>1, <1>10 DEF Keeps

LEMMA HubKeeps ==
    ASSUME ChatInv, HubStops \/ HubStopsInDeletion \/ HubOpens
    PROVE  Keeps
<1>1. CASE Stops
  <2>1. LoopInv' /\ LineageMove
    BY <1>1, StreamSets DEF Stops, ChatInv, LoopInv, LineageMove, TaskState, ThreadState
  <2>2. RespMove
    BY <1>1, RespIdles DEF Stops, ChatInv
  <2>3. CASE HubStops
    BY <2>1, <2>2, <2>3, IdleIsStep DEF HubStops, ChatInv, Keeps
  <2>4. CASE HubStopsInDeletion
    BY <2>1, <2>2, <2>4, CutDeletionSettles DEF HubStopsInDeletion, ChatInv, StoreStep, Keeps
  <2>5. QED
    BY <1>1, <2>3, <2>4 DEF Stops, HubOpens
<1>2. CASE HubOpens
  <2>1. StoreStep /\ RespMove
    BY <1>2, RecoverySettles, ResponsesRecover DEF HubOpens, ChatInv, StoreStep
  <2>2. LoopInv' /\ LineageMove
    BY <1>2 DEF HubOpens, ChatInv, LoopInv, LineageMove, loopVars
  <2>3. QED
    BY <2>1, <2>2 DEF Keeps
<1>3. QED
  BY <1>1, <1>2 DEF HubStops, HubStopsInDeletion

-----------------------------------------------------------------------------
(* The specification                                                        *)

LEMMA NextKeeps == ChatInv /\ [Next]_vars => Keeps
<1> SUFFICES ASSUME ChatInv, [Next]_vars
             PROVE  Keeps
  OBVIOUS
<1>1. CASE UNCHANGED vars
  <2>1. StoreStep /\ RespMove
    BY <1>1, IdleIsStep, RespIdles DEF vars, ChatInv
  <2>2. LoopInv' /\ LineageMove
    BY <1>1 DEF vars, loopVars, ChatInv, LoopInv, LineageMove
  <2>3. QED
    BY <2>1, <2>2 DEF Keeps
<1>2. CASE Next
  <2>1. ASSUME NEW s \in Streams, OpenStep(s)
        PROVE  Keeps
    BY <2>1, SendReadsKeeps, RunForksKeeps DEF OpenStep
  <2>2. ASSUME NEW s \in Streams, LeaveStep(s)
        PROVE  Keeps
    BY <2>2, BodyKeeps DEF LeaveStep
  <2>3. ASSUME NEW s \in Streams, LoopStep(s)
        PROVE  Keeps
    BY <2>3, SendWritesKeeps, BodyKeeps, FrameKeeps, SettleResponseKeeps, SettleTurnKeeps DEF LoopStep
  <2>4. ASSUME DispatchStep
        PROVE  Keeps
    BY <2>4, DispatchStartsKeeps, DispatchForksKeeps, DispatchForkFailsKeeps DEF DispatchStep
  <2>5. ASSUME BranchesStart \/ LeaveAtAnnounce
        PROVE  Keeps
    <3>1. PICK b \in Branches : TRUE
      BY StreamSets, StreamAssumption
    <3>2. QED
      BY <2>5, <3>1, StreamSets, BodyKeeps
  <2>6. QED
    BY <1>2, <2>1, <2>2, <2>3, <2>4, <2>5, ThreadKeeps, ClientKeeps, HubKeeps DEF Next
<1>3. QED
  BY <1>1, <1>2

LEMMA InitEstablishes == Init => ChatInv
<1> SUFFICES ASSUME Init
             PROVE  ChatInv
  OBVIOUS
<1>1. ConvInv
  <2>1. turns = << >> /\ Len(turns) = 0 /\ turns \in Seq(Row) /\ DOMAIN turns = {}
    BY DEF Init, ConversationsInit
  <2>2. conv \in [Conv -> ConvStatus]
    BY DEF Init, ConversationsInit, ConvStatus
  <2>3. QED
    BY <2>1, <2>2, ConversationAssumption DEF ConvInv, HistoryReadable, DeletedIsFinal
<1>2. ResponsesTypeOK
  BY DEF Init, ResponsesInit, ResponsesTypeOK, NoResponse, LifecycleState
<1>3. LoopInv
  <2>1. (CHOOSE c \in Conv : TRUE) \in Conv
    BY StreamAssumption
  <2>2. home \in [Streams -> Conv]
    BY <2>1 DEF Init
  <2>3. QED
    BY <2>2, StreamSets DEF Init, LoopInv, TaskState, ThreadState
<1>4. LineageFits
  BY <1>1 DEF Init, LineageFits, ConvInv
<1>5. QED
  BY <1>1, <1>2, <1>3, <1>4 DEF ChatInv

\* What every reachable state of the streams and their stores satisfies.
THEOREM ChatInvariant == Spec => []ChatInv
<1>1. ChatInv /\ [Next]_vars => ChatInv'
  BY NextKeeps, StepKeepsInv
<1>2. QED
  BY <1>1, InitEstablishes, PTL DEF Spec

\* A conversation can always be read back as one tree, whatever streams,
\* browsers, deletions and stops of the hub did to it (_lineage_order).
THEOREM HistoryStaysReadable == Spec => []HistoryReadable
<1>1. ChatInv => HistoryReadable
  BY DEF ChatInv, ConvInv
<1>2. QED
  BY <1>1, ChatInvariant, PTL

\* What is deleted keeps no content and no live turn, also after a stop inside
\* the deletion and under streams that still write (delete_conversation).
THEOREM DeletedStaysDeleted == Spec => []DeletedIsFinal
<1>1. ChatInv => DeletedIsFinal
  BY DEF ChatInv, ConvInv
<1>2. QED
  BY <1>1, ChatInvariant, PTL

\* Every response and every turn is a record that is opened once and settles
\* once: each step of the streams is a step of SettleOnce or leaves the record.
THEOREM RecordsSettleOnce == Spec => SettlesOnce
<1>1. Init => Responses!Init /\ Turns!Init
  <2>1. ASSUME Init
        PROVE  Responses!Init
    BY <2>1 DEF Init, ResponsesInit, NoResponse, Responses!Init
  <2>2. ASSUME Init
        PROVE  Turns!Init
    <3>1. Len(turns) = 0 /\ \A t \in 1 .. MaxTurns : t > Len(turns)
      BY <2>2, ConversationAssumption DEF Init, ConversationsInit
    <3>2. QED
      BY <3>1 DEF Turns!Init
  <2>3. QED
    BY <2>1, <2>2
<1>2. ASSUME ChatInv, [Next]_vars
      PROVE  Responses!Next
  <2>1. RespMove
    BY <1>2, NextKeeps DEF Keeps
  <2>2. \A r \in Request : resp[r].state \in LifecycleState /\ resp'[r].state \in LifecycleState
    BY <1>2, <2>1 DEF ChatInv, ResponsesTypeOK, RespMove
  <2>3. QED
    BY <2>1, <2>2 DEF RespMove, LifecycleState, TerminalState, Responses!Next, Responses!Phase, Responses!May
<1>3. ASSUME ChatInv, [Next]_vars
      PROVE  Turns!Next
  <2>1. TurnsMove
    BY <1>3, NextKeeps, StoreStepKeepsInv DEF ChatInv, Keeps
  <2>2. /\ Len(turns) \in Nat /\ Len(turns') \in Nat /\ Len(turns) <= Len(turns') /\ MaxTurns \in Nat
        /\ \A t \in 1 .. Len(turns) : turns[t] \in Row
        /\ \A t \in 1 .. Len(turns') : turns'[t] \in Row
    BY <1>3, <2>1, ConversationAssumption DEF ChatInv, ConvInv, TurnsMove
  <2>3. /\ \A t \in 1 .. Len(turns) : turns[t].status \in TurnStatus
        /\ \A t \in 1 .. Len(turns') : turns'[t].status \in TurnStatus
    BY <2>2 DEF Row
  <2>4. \A t \in 1 .. Len(turns) : \/ turns'[t].status = turns[t].status
                                   \/ turns[t].status = "streaming" /\ turns'[t].status \in TerminalTurnStatus
    BY <2>1 DEF TurnsMove
  <2>5. QED
    BY <2>2, <2>3, <2>4 DEF TurnStatus, TerminalTurnStatus, Turns!Next, Turns!Phase, Turns!May
<1>4. QED
  BY <1>1, <1>2, <1>3, ChatInvariant, PTL DEF Spec, SettlesOnce, Responses!Spec, Turns!Spec

-----------------------------------------------------------------------------
(* What the streams have done so far, stream by stream                      *)

Parked == {"unused", "idle"}
Opening == Parked \cup {"forked", "ready", "announced"}

\* A hub that is down runs no coroutine.
DownIsQuiet == hub = "down" => \A s \in Streams : ~Holding(s)

\* A dispatch forks its branches from the first one on, and then they go on together.
BatchTogether ==
    /\ task[Batch[1]] \in Parked => \A b \in Branches : task[b] \in Parked
    /\ \A b, d \in Branches :
          /\ task[b] \in Parked => task[d] \in Parked \cup {"forked", "dead"}
          /\ task[b] = "forked" => task[d] \in Parked \cup {"forked"}
          /\ task[b] \in {"ready", "announced"} => task[d] = task[b]

\* Each counter is the number of streams that hold a slot of its kind.
SlotsHeld ==
    /\ slots["send"] = Cardinality({s \in Sends : Holding(s)})
    /\ slots["run"] = Cardinality({s \in Runs : Holding(s)})
    /\ slots["batch"] = IF \E b \in Branches : Holding(b) THEN 1 ELSE 0

SlotsCount ==
    /\ slots \in [Router -> Nat]
    /\ IsFiniteSet({s \in Sends : Holding(s)}) /\ IsFiniteSet({s \in Runs : Holding(s)})
    /\ SlotsHeld

\* An attempt that is pulled by a connected client has begun and is not over, and
\* its last frame is above what it has committed.
AttemptFits(s) ==
    /\ task[s] \notin {"read", "answering"}
    /\ resp[s].committed <= convSeq[home[s]]
    /\ task[s] \in Opening => resp[s] = NoResponse /\ thread[s] \in {"none", "closed"}
    /\ task[s] = "pulling" =>
          /\ thread[s] \in {"queued", "entered"} => resp[s].state \in {"absent", "in_progress"}
          /\ thread[s] \in {"reading", "drawnDelta", "gotDelta", "drawnTerminal"} =>
                resp[s].state = "in_progress"
          /\ thread[s] \in {"drawnDelta", "drawnTerminal"} => resp[s].committed < seq[s]

\* The response of a send is open until it is answered or settled; a settled one was
\* left, and is not completed.
SendFits(s) ==
    /\ resp[s].committed <= seq[s]
    /\ thread[s] \notin {"drawnDelta", "drawnTerminal"}
    /\ task[s] \in {"ready", "pulling", "answering", "leaving"} => resp[s].state = "in_progress"
    /\ task[s] = "pulling" /\ thread[s] \in {"gotDelta", "gotTerminal"} => resp[s].committed < seq[s]
    /\ task[s] = "answering" => thread[s] = "gotTerminal"
    /\ task[s] \in {"settling", "left"} => resp[s].state \in {"cancelled", "timed_out", "interrupted"}
    /\ task[s] = "settling" => verdict[s] # "complete"
    /\ task[s] \notin {"forked", "announced"}

\* The answer of a send is written once, when it is answered or settled, and is what
\* the response says.
AnswerFits(s) ==
    /\ task[s] \notin {"answering", "over", "left", "dead"} => Answers(s) = {}
    /\ \A t, u \in Answers(s) : t = u
    /\ \A t \in Answers(s) : turns[t].status # "streaming"
    /\ task[s] = "answering" =>
          \E t \in Answers(s) : turns[t].status = TurnStatusFor(outcome[s]) /\ turns[t].parent = base[s]
    /\ resp[s].state = "completed" =>
          \E t \in Answers(s) : turns[t].status = "complete" /\ turns[t].parent = base[s]
    /\ task[s] = "left" => \A t \in Answers(s) : turns[t].status # "complete"

Fits(s) ==
    /\ s \in Advanced => AttemptFits(s)
    /\ s \in Sends => SendFits(s) /\ AnswerFits(s)

StreamInv ==
    /\ ChatInv
    /\ DownIsQuiet
    /\ BatchTogether
    /\ SlotsCount
    /\ \A s \in Streams : Fits(s)

-----------------------------------------------------------------------------
(* The answers of a send                                                    *)

\* A step that writes no answer of s, and leaves those there are as they are.
AnswersKept(s) ==
    /\ Answers(s)' = Answers(s)
    /\ \A t \in Answers(s) :
          /\ turns'[t].parent = turns[t].parent
          /\ turns[t].status # "streaming" => turns'[t].status = turns[t].status

LEMMA IdleKeepsAnswers ==
    ASSUME UNCHANGED turns, NEW s
    PROVE  AnswersKept(s)
BY DEF AnswersKept, Answers

LEMMA SettlingKeepsAnswers ==
    ASSUME ConvInv, RowsSettle, NEW s
    PROVE  AnswersKept(s)
<1>1. DOMAIN turns = 1 .. Len(turns) /\ DOMAIN turns' = 1 .. Len(turns)
  BY DEF ConvInv, RowsSettle
<1>2. \A t \in 1 .. Len(turns) :
         /\ turns'[t].by = turns[t].by /\ turns'[t].role = turns[t].role
         /\ turns'[t].parent = turns[t].parent
         /\ turns[t].status # "streaming" => turns'[t].status = turns[t].status
  BY DEF RowsSettle
<1>3. QED
  BY <1>1, <1>2 DEF AnswersKept, Answers

LEMMA AppendRow ==
    ASSUME ConvInv, NEW c, NEW p, NEW i, NEW role, NEW status, NEW by,
           AppendTurn(c, p, i, role, status, by)
    PROVE  /\ Len(turns) \in Nat
           /\ DOMAIN turns = 1 .. Len(turns) /\ DOMAIN turns' = 1 .. Len(turns) + 1
           /\ \A t \in 1 .. Len(turns) : turns'[t] = turns[t]
           /\ turns'[Len(turns) + 1].by = by /\ turns'[Len(turns) + 1].role = role
           /\ turns'[Len(turns) + 1].status = status /\ turns'[Len(turns) + 1].parent = p
<1>1. PICK row : row = NewTurn(c, p, i, role, status, by)
  OBVIOUS
<1>2. row.by = by /\ row.role = role /\ row.status = status /\ row.parent = p
  BY <1>1 DEF NewTurn
<1>3. turns' = Append(turns, row) /\ turns \in Seq(Row)
  BY <1>1 DEF AppendTurn, ConvInv
<1>4. /\ Len(turns) \in Nat
      /\ DOMAIN turns = 1 .. Len(turns) /\ DOMAIN turns' = 1 .. Len(turns) + 1
      /\ \A t \in 1 .. Len(turns) : turns'[t] = turns[t]
      /\ turns'[Len(turns) + 1] = row
  BY <1>3
<1>5. QED
  BY <1>2, <1>4

LEMMA AppendKeepsAnswers ==
    ASSUME ConvInv, NEW c, NEW p, NEW i, NEW role, NEW status, NEW by,
           AppendTurn(c, p, i, role, status, by), NEW s, by # s \/ role # "assistant"
    PROVE  AnswersKept(s)
<1>1. PICK n : n = Len(turns) + 1
  OBVIOUS
<1>2. /\ n \in Nat /\ DOMAIN turns = 1 .. n - 1 /\ DOMAIN turns' = 1 .. n
      /\ \A t \in 1 .. n - 1 : turns'[t] = turns[t]
      /\ turns'[n].by = by /\ turns'[n].role = role
  BY <1>1, AppendRow
<1>3. Answers(s)' = Answers(s)
  BY <1>2 DEF Answers
<1>4. QED
  BY <1>2, <1>3 DEF AnswersKept, Answers

LEMMA BranchKeepsAnswers ==
    ASSUME ConvInv, NEW c, NEW p, NEW role, NEW status, NEW by,
           BranchTurn(c, p, role, status, by), NEW s, by # s \/ role # "assistant"
    PROVE  AnswersKept(s)
<1>1. PICK i : i = NextSibling(c, p)
  OBVIOUS
<1>2. AppendTurn(c, p, i, role, status, by)
  BY <1>1 DEF BranchTurn
<1>3. QED
  BY <1>2, AppendKeepsAnswers

\* The first answer of a send is its only one.
LEMMA FirstAnswer ==
    ASSUME ConvInv, NEW c, NEW p, NEW i, NEW status, NEW s,
           AppendTurn(c, p, i, "assistant", status, s), Answers(s) = {}
    PROVE  \E t : /\ Answers(s)' = {t}
                  /\ turns'[t].status = status /\ turns'[t].parent = p
<1>1. PICK n : n = Len(turns) + 1
  OBVIOUS
<1>2. /\ n \in Nat /\ n > 0 /\ DOMAIN turns = 1 .. n - 1 /\ DOMAIN turns' = 1 .. n
      /\ \A t \in 1 .. n - 1 : turns'[t] = turns[t]
      /\ turns'[n].by = s /\ turns'[n].role = "assistant"
      /\ turns'[n].status = status /\ turns'[n].parent = p
  BY <1>1, AppendRow
<1>3. Answers(s)' = {n}
  BY <1>2 DEF Answers
<1>4. QED
  BY <1>2, <1>3

-----------------------------------------------------------------------------
(* What a step of one stream leaves of the others                           *)

\* Nothing of stream s moves but its turns.
Still(s) ==
    /\ resp'[s] = resp[s] /\ task'[s] = task[s] /\ thread'[s] = thread[s]
    /\ home'[s] = home[s] /\ base'[s] = base[s] /\ seq'[s] = seq[s]
    /\ outcome'[s] = outcome[s] /\ verdict'[s] = verdict[s]

\* No high-water mark falls.
MarksGrow == \A c \in Conv : convSeq'[c] >= convSeq[c]

LEMMA StillFits ==
    ASSUME StreamInv, ChatInv', MarksGrow, NEW s \in Streams, Still(s),
           s \in Sends => AnswersKept(s)
    PROVE  Fits(s)'
<1>1. CASE s \in Advanced
  <2>1. home[s] \in Conv /\ resp[s].committed \in Nat
        /\ convSeq[home[s]] \in Nat /\ convSeq'[home[s]] \in Nat
    BY StreamSets DEF StreamInv, ChatInv, LoopInv, ResponsesTypeOK
  <2>2. resp[s].committed <= convSeq'[home[s]]
    BY <2>1, <1>1 DEF StreamInv, Fits, AttemptFits, MarksGrow
  <2>3. AttemptFits(s)'
    BY <1>1, <2>2 DEF StreamInv, Fits, AttemptFits, Still, NoResponse
  <2>4. QED
    BY <1>1, <2>3, StreamSets DEF Fits
<1>2. CASE s \in Sends
  <2>1. SendFits(s)'
    BY <1>2 DEF StreamInv, Fits, SendFits, Still
  <2>2. AnswerFits(s)'
    BY <1>2 DEF StreamInv, Fits, AnswerFits, Still, AnswersKept
  <2>3. QED
    BY <1>2, <2>1, <2>2, StreamSets DEF Fits
<1>3. QED
  BY <1>1, <1>2 DEF Streams

\* A step after which s holds or awaits no frame and has no answer it had not.
LEMMA AnswersFit ==
    ASSUME NEW s, AnswerFits(s), AnswersKept(s), base'[s] = base[s],
           task[s] \in {"answering", "over", "left", "dead"} => task'[s] \in {"answering", "over", "left", "dead"},
           task'[s] = "answering" => task[s] = "answering" /\ outcome'[s] = outcome[s],
           resp'[s].state = "completed" => resp[s].state = "completed",
           task'[s] = "left" => task[s] = "left"
    PROVE  AnswerFits(s)'
BY DEF AnswerFits, AnswersKept

\* An attempt that has not begun has nothing to lose.
LEMMA OpeningFits ==
    ASSUME StreamInv, ChatInv', NEW s \in Advanced, task[s] \in Opening, resp'[s] = resp[s],
           \/ thread'[s] = thread[s] /\ task'[s] \notin {"pulling", "read", "answering"}
           \/ thread'[s] = "queued" /\ task'[s] = "pulling"
    PROVE  Fits(s)'
<1>1. resp'[s] = NoResponse /\ thread[s] \in {"none", "closed"}
  BY StreamSets DEF StreamInv, Fits, AttemptFits
<1>2. resp'[s].committed = 0 /\ resp'[s].state = "absent"
  BY <1>1 DEF NoResponse
<1>3. home'[s] \in Conv /\ convSeq'[home'[s]] \in Nat
  BY StreamSets DEF ChatInv, LoopInv, ResponsesTypeOK
<1>4. AttemptFits(s)'
  BY <1>1, <1>2, <1>3 DEF AttemptFits, Opening, Parked
<1>5. QED
  BY <1>4, StreamSets DEF Fits

-----------------------------------------------------------------------------
(* What the response store does to the marks                                *)

LEMMA AdvanceFacts ==
    ASSUME ResponsesTypeOK, NEW r \in Request, NEW c \in Conv, NEW n \in Nat, NEW state,
           Advance(r, c, state, n)
    PROVE  /\ resp[r].state = "in_progress" /\ n > resp[r].committed
           /\ resp'[r].state = state /\ resp'[r].committed = n /\ n <= convSeq'[c]
           /\ \A o \in Request \ {r} : resp'[o] = resp[o]
           /\ MarksGrow
BY StreamSets DEF ResponsesTypeOK, Advance, MayCommit, MarksGrow

LEMMA BeginFacts ==
    ASSUME ResponsesTypeOK, NEW r \in Request, Begin(r)
    PROVE  /\ resp[r].state = "absent" /\ resp'[r].state = "in_progress" /\ resp'[r].committed = 0
           /\ \A o \in Request \ {r} : resp'[o] = resp[o]
           /\ MarksGrow
BY StreamSets DEF ResponsesTypeOK, Begin, MarksGrow

LEMMA DrawFacts ==
    ASSUME ResponsesTypeOK, NEW c \in Conv, DrawSeq(c)
    PROVE  resp' = resp /\ convSeq'[c] = convSeq[c] + 1 /\ convSeq[c] \in Nat /\ MarksGrow
BY StreamSets DEF ResponsesTypeOK, DrawSeq, MarksGrow

LEMMA UnnumberedFacts ==
    ASSUME ResponsesTypeOK, NEW r \in Request, NEW state, AdvanceUnnumbered(r, state)
    PROVE  /\ resp'[r].state = state /\ resp'[r].committed = resp[r].committed
           /\ \A o \in Request \ {r} : resp'[o] = resp[o]
           /\ MarksGrow
BY StreamSets DEF ResponsesTypeOK, AdvanceUnnumbered, MarksGrow

LEMMA MarksStay == ResponsesTypeOK /\ convSeq' = convSeq => MarksGrow
BY StreamSets DEF ResponsesTypeOK, MarksGrow

-----------------------------------------------------------------------------
(* The tasks, the batch and the slots                                       *)

Tasks == DownIsQuiet /\ BatchTogether /\ SlotsCount

LEMMA TasksStay ==
    ASSUME Tasks, UNCHANGED <<task, slots, hub>>
    PROVE  Tasks'
BY DEF Tasks, DownIsQuiet, BatchTogether, SlotsCount, SlotsHeld, Holding

\* A step of one stream that leaves the batch and the slots as they are.
LEMMA OneTaskMoves ==
    ASSUME Tasks, NEW s \in Streams, task \in [Streams -> TaskState], hub' = "up", slots' = slots,
           NEW how \in TaskState, task' = [task EXCEPT ![s] = how],
           Holding(s),
           how \in {"pulling", "answering", "leaving", "settling", "ready"},
           s \in Branches => task[s] \in {"pulling", "leaving"} /\ how # "ready"
    PROVE  Tasks'
<1>1. /\ task'[s] = how /\ \A b \in Streams \ {s} : task'[b] = task[b]
      /\ Sends \subseteq Streams /\ Runs \subseteq Streams /\ Branches \subseteq Streams
      /\ Batch[1] \in Branches
  BY StreamSets, StreamAssumption
<1>2. \A b \in Streams : Holding(b)' = Holding(b)
  BY <1>1 DEF Holding, Ended
<1>3. SlotsCount'
  <2>1. /\ {b \in Sends : Holding(b)}' = {b \in Sends : Holding(b)}
        /\ {b \in Runs : Holding(b)}' = {b \in Runs : Holding(b)}
        /\ (\E b \in Branches : Holding(b))' = \E b \in Branches : Holding(b)
    BY <1>1, <1>2
  <2>2. QED
    BY <2>1 DEF Tasks, SlotsCount, SlotsHeld
<1>4. BatchTogether'
  <2>1. CASE s \in Branches
    BY <1>1, <2>1 DEF Tasks, BatchTogether, Parked
  <2>2. CASE s \notin Branches
    BY <1>1, <2>2 DEF Tasks, BatchTogether
  <2>3. QED
    BY <2>1, <2>2
<1>5. QED
  BY <1>3, <1>4 DEF Tasks, DownIsQuiet

\* A send or a run takes a slot.
LEMMA StreamOpens ==
    ASSUME Tasks, NEW s \in Sends \cup Runs, task \in [Streams -> TaskState], hub' = "up",
           task[s] = "idle", NEW how \in {"read", "ready"}, task' = [task EXCEPT ![s] = how],
           Acquire(RouterOf(s))
    PROVE  Tasks'
<1>1. /\ task'[s] = how /\ \A b \in Streams \ {s} : task'[b] = task[b]
      /\ Sends \subseteq Streams /\ Runs \subseteq Streams /\ Branches \subseteq Streams
      /\ Sends \cap Runs = {} /\ s \notin Branches /\ s \in Streams /\ Batch[1] \in Branches
  BY StreamSets, StreamAssumption
<1>2. ~Holding(s) /\ Holding(s)' /\ \A b \in Streams \ {s} : Holding(b)' = Holding(b)
  BY <1>1 DEF Holding, Ended
<1>3. BatchTogether'
  BY <1>1 DEF Tasks, BatchTogether
<1>4. PICK H, K : H = {b \in Sends : Holding(b)} /\ K = {b \in Runs : Holding(b)}
  OBVIOUS
<1>5. /\ IsFiniteSet(H) /\ IsFiniteSet(K) /\ Cardinality(H) \in Nat /\ Cardinality(K) \in Nat
      /\ slots["send"] = Cardinality(H) /\ slots["run"] = Cardinality(K)
      /\ slots \in [Router -> Nat]
  BY <1>4, FS_CardinalityType DEF Tasks, SlotsCount, SlotsHeld
<1>6. (\E b \in Branches : Holding(b))' = \E b \in Branches : Holding(b)
  BY <1>1, <1>2
<1>7. CASE s \in Sends
  <2>1. {b \in Sends : Holding(b)}' = H \cup {s} /\ {b \in Runs : Holding(b)}' = K /\ s \notin H
    BY <1>1, <1>2, <1>4, <1>7
  <2>2. IsFiniteSet(H \cup {s}) /\ Cardinality(H \cup {s}) = Cardinality(H) + 1
    BY <1>5, <2>1, FS_AddElement
  <2>3. slots' = [slots EXCEPT !["send"] = @ + 1]
    BY <1>7 DEF Acquire, RouterOf
  <2>4. SlotsCount'
    <3>1. /\ slots' \in [Router -> Nat] /\ slots'["send"] = Cardinality(H) + 1
          /\ slots'["run"] = slots["run"] /\ slots'["batch"] = slots["batch"]
      BY <1>5, <2>3 DEF Router
    <3>2. slots["batch"] = IF \E b \in Branches : Holding(b) THEN 1 ELSE 0
      BY DEF Tasks, SlotsCount, SlotsHeld
    <3>3. QED
      BY <1>5, <1>6, <2>1, <2>2, <3>1, <3>2 DEF SlotsCount, SlotsHeld
  <2>5. QED
    BY <1>3, <2>4 DEF Tasks, DownIsQuiet
<1>8. CASE s \in Runs
  <2>1. {b \in Sends : Holding(b)}' = H /\ {b \in Runs : Holding(b)}' = K \cup {s} /\ s \notin K
    BY <1>1, <1>2, <1>4, <1>8
  <2>2. IsFiniteSet(K \cup {s}) /\ Cardinality(K \cup {s}) = Cardinality(K) + 1
    BY <1>5, <2>1, FS_AddElement
  <2>3. slots' = [slots EXCEPT !["run"] = @ + 1]
    BY <1>1, <1>8 DEF Acquire, RouterOf
  <2>4. SlotsCount'
    <3>1. /\ slots' \in [Router -> Nat] /\ slots'["run"] = Cardinality(K) + 1
          /\ slots'["send"] = slots["send"] /\ slots'["batch"] = slots["batch"]
      BY <1>5, <2>3 DEF Router
    <3>2. slots["batch"] = IF \E b \in Branches : Holding(b) THEN 1 ELSE 0
      BY DEF Tasks, SlotsCount, SlotsHeld
    <3>3. QED
      BY <1>5, <1>6, <2>1, <2>2, <3>1, <3>2 DEF SlotsCount, SlotsHeld
  <2>5. QED
    BY <1>3, <2>4 DEF Tasks, DownIsQuiet
<1>9. QED
  BY <1>7, <1>8

\* A coroutine ends: its slot goes with it, or with the last branch of the batch.
LEMMA StreamEnds ==
    ASSUME Tasks, NEW s \in Streams, task \in [Streams -> TaskState], hub' = "up",
           task[s] \in {"read", "pulling", "answering", "settling"},
           NEW how \in {"over", "left"}, Finish(s, how)
    PROVE  Tasks'
<1>1. /\ task'[s] = how /\ \A b \in Streams \ {s} : task'[b] = task[b]
      /\ Sends \subseteq Streams /\ Runs \subseteq Streams /\ Branches \subseteq Streams
      /\ Sends \cap Runs = {} /\ Sends \cap Branches = {} /\ Runs \cap Branches = {}
      /\ Batch[1] \in Branches
  BY StreamSets, StreamAssumption DEF Finish
<1>2. Holding(s) /\ ~(Holding(s)') /\ \A b \in Streams \ {s} : Holding(b)' = Holding(b)
  BY <1>1 DEF Holding, Ended
<1>3. BatchTogether'
  <2>1. CASE s \in Branches
    BY <1>1, <2>1 DEF Tasks, BatchTogether, Parked
  <2>2. CASE s \notin Branches
    BY <1>1, <2>2 DEF Tasks, BatchTogether
  <2>3. QED
    BY <2>1, <2>2
<1>4. PICK H, K : H = {b \in Sends : Holding(b)} /\ K = {b \in Runs : Holding(b)}
  OBVIOUS
<1>5. /\ IsFiniteSet(H) /\ IsFiniteSet(K) /\ Cardinality(H) \in Nat /\ Cardinality(K) \in Nat
      /\ slots["send"] = Cardinality(H) /\ slots["run"] = Cardinality(K)
      /\ slots["batch"] = (IF \E b \in Branches : Holding(b) THEN 1 ELSE 0)
      /\ slots \in [Router -> Nat]
  BY <1>4, FS_CardinalityType DEF Tasks, SlotsCount, SlotsHeld
<1>6. CASE s \in Sends
  <2>1. /\ {b \in Sends : Holding(b)}' = H \ {s} /\ {b \in Runs : Holding(b)}' = K /\ s \in H
        /\ (\E b \in Branches : Holding(b))' = \E b \in Branches : Holding(b)
    BY <1>1, <1>2, <1>4, <1>6
  <2>2. IsFiniteSet(H \ {s}) /\ Cardinality(H \ {s}) = Cardinality(H) - 1 /\ Cardinality(H \ {s}) \in Nat
    BY <1>5, <2>1, FS_RemoveElement, FS_CardinalityType
  <2>3. slots' = [slots EXCEPT !["send"] = IF @ = 0 THEN 0 ELSE @ - 1]
    BY <1>1, <1>6 DEF Finish, Group, Release, RouterOf
  <2>4. SlotsCount'
    <3>1. /\ slots' \in [Router -> Nat] /\ slots'["send"] = Cardinality(H) - 1
          /\ slots'["run"] = slots["run"] /\ slots'["batch"] = slots["batch"]
      BY <1>5, <2>2, <2>3 DEF Router
    <3>2. QED
      BY <1>5, <2>1, <2>2, <3>1 DEF SlotsCount, SlotsHeld
  <2>5. QED
    BY <1>3, <2>4 DEF Tasks, DownIsQuiet
<1>7. CASE s \in Runs
  <2>1. /\ {b \in Sends : Holding(b)}' = H /\ {b \in Runs : Holding(b)}' = K \ {s} /\ s \in K
        /\ (\E b \in Branches : Holding(b))' = \E b \in Branches : Holding(b)
    BY <1>1, <1>2, <1>4, <1>7
  <2>2. IsFiniteSet(K \ {s}) /\ Cardinality(K \ {s}) = Cardinality(K) - 1 /\ Cardinality(K \ {s}) \in Nat
    BY <1>5, <2>1, FS_RemoveElement, FS_CardinalityType
  <2>3. slots' = [slots EXCEPT !["run"] = IF @ = 0 THEN 0 ELSE @ - 1]
    BY <1>1, <1>7 DEF Finish, Group, Release, RouterOf
  <2>4. SlotsCount'
    <3>1. /\ slots' \in [Router -> Nat] /\ slots'["run"] = Cardinality(K) - 1
          /\ slots'["send"] = slots["send"] /\ slots'["batch"] = slots["batch"]
      BY <1>5, <2>2, <2>3 DEF Router
    <3>2. QED
      BY <1>5, <2>1, <2>2, <3>1 DEF SlotsCount, SlotsHeld
  <2>5. QED
    BY <1>3, <2>4 DEF Tasks, DownIsQuiet
<1>8. CASE s \in Branches
  <2>1. {b \in Sends : Holding(b)}' = H /\ {b \in Runs : Holding(b)}' = K
    BY <1>1, <1>2, <1>4, <1>8
  <2>2. slots["batch"] = 1
    BY <1>2, <1>5, <1>8
  <2>3. CASE \A b \in Branches \ {s} : task[b] \in Ended
    <3>1. slots' = [slots EXCEPT !["batch"] = IF @ = 0 THEN 0 ELSE @ - 1]
      BY <1>1, <1>8, <2>3 DEF Finish, Group, Release, RouterOf
    <3>2. ~\E b \in Branches : Holding(b)'
      BY <1>1, <1>2, <2>3 DEF Holding
    <3>3. SlotsCount'
      BY <1>4, <1>5, <2>1, <2>2, <3>1, <3>2 DEF SlotsCount, SlotsHeld, Router
    <3>4. QED
      BY <1>3, <3>3 DEF Tasks, DownIsQuiet
  <2>4. CASE \E b \in Branches \ {s} : task[b] \notin Ended
    <3>1. slots' = slots
      BY <1>1, <1>8, <2>4 DEF Finish, Group
    <3>2. \E b \in Branches : Holding(b)'
      <4>1. PICK b \in Branches \ {s} : task[b] \notin Ended
        BY <2>4
      <4>2. task[b] \notin Parked
        BY <1>8, <4>1 DEF Tasks, BatchTogether, Parked
      <4>3. QED
        BY <1>1, <1>2, <4>1, <4>2 DEF Holding, Parked
    <3>3. SlotsCount'
      BY <1>4, <1>5, <2>1, <2>2, <3>1, <3>2 DEF SlotsCount, SlotsHeld
    <3>4. QED
      BY <1>3, <3>3 DEF Tasks, DownIsQuiet
  <2>5. QED
    BY <2>3, <2>4
<1>9. QED
  BY <1>6, <1>7, <1>8 DEF Streams, Advanced

LEMMA HoldersStay ==
    ASSUME Tasks, BatchTogether', hub' = "up", slots' = slots,
           \A b \in Streams : Holding(b)' = Holding(b)
    PROVE  Tasks'
<1>1. /\ {b \in Sends : Holding(b)}' = {b \in Sends : Holding(b)}
      /\ {b \in Runs : Holding(b)}' = {b \in Runs : Holding(b)}
      /\ (\E b \in Branches : Holding(b))' = \E b \in Branches : Holding(b)
  BY StreamSets
<1>2. QED
  BY <1>1 DEF Tasks, SlotsCount, SlotsHeld, DownIsQuiet

\* What befalls the whole batch keeps its slot, or gives it back.
LEMMA BatchMoves ==
    ASSUME Tasks, hub' = "up", \E b \in Branches : Holding(b),
           NEW how, task' = [b \in Streams |-> IF b \in Branches THEN how ELSE task[b]],
           \/ how \in {"ready", "announced", "pulling", "lost"} /\ slots' = slots
           \/ how \in {"over", "left"} /\ Release("batch")
    PROVE  Tasks'
<1>1. /\ \A b \in Branches : task'[b] = how
      /\ \A b \in Sends \cup Runs : task'[b] = task[b]
      /\ Batch[1] \in Branches
  BY StreamSets, StreamAssumption
<1>2. BatchTogether'
  BY <1>1 DEF BatchTogether, Parked
<1>3. /\ {b \in Sends : Holding(b)}' = {b \in Sends : Holding(b)}
      /\ {b \in Runs : Holding(b)}' = {b \in Runs : Holding(b)}
      /\ (\E b \in Branches : Holding(b))' = (how \notin {"over", "left"})
  BY <1>1 DEF Holding, Ended
<1>4. slots["batch"] = 1 /\ slots \in [Router -> Nat]
  BY DEF Tasks, SlotsCount, SlotsHeld
<1>5. /\ slots' \in [Router -> Nat] /\ slots'["send"] = slots["send"] /\ slots'["run"] = slots["run"]
      /\ slots'["batch"] = IF how \in {"over", "left"} THEN 0 ELSE 1
  BY <1>4 DEF Release, Router
<1>6. QED
  BY <1>2, <1>3, <1>5 DEF Tasks, SlotsCount, SlotsHeld, DownIsQuiet

LEMMA BatchOpens ==
    ASSUME Tasks, task \in [Streams -> TaskState], hub' = "up", task[Batch[1]] = "idle",
           task' = [task EXCEPT ![Batch[1]] = "forked"], Acquire("batch")
    PROVE  Tasks'
<1>1. PICK s \in Branches : s = Batch[1]
  BY StreamSets, StreamAssumption
<1>2. /\ task'[s] = "forked" /\ \A b \in Streams \ {s} : task'[b] = task[b]
      /\ Sends \subseteq Streams /\ Runs \subseteq Streams /\ Branches \subseteq Streams
      /\ Sends \cap Branches = {} /\ Runs \cap Branches = {}
  BY <1>1, StreamSets, StreamAssumption
<1>3. \A b \in Branches : task[b] \in Parked
  BY DEF Tasks, BatchTogether, Parked
<1>4. BatchTogether'
  BY <1>1, <1>2, <1>3 DEF BatchTogether, Parked
<1>5. /\ {b \in Sends : Holding(b)}' = {b \in Sends : Holding(b)}
      /\ {b \in Runs : Holding(b)}' = {b \in Runs : Holding(b)}
  BY <1>1, <1>2 DEF Holding, Ended
<1>6. (\E b \in Branches : Holding(b)') /\ ~(\E b \in Branches : Holding(b))
  BY <1>1, <1>2, <1>3 DEF Holding, Ended, Parked
<1>7. /\ slots' \in [Router -> Nat] /\ slots'["send"] = slots["send"] /\ slots'["run"] = slots["run"]
      /\ slots'["batch"] = 1
  BY <1>6 DEF Tasks, SlotsCount, SlotsHeld, Acquire, Router
<1>8. QED
  BY <1>4, <1>5, <1>6, <1>7 DEF Tasks, SlotsCount, SlotsHeld, DownIsQuiet

LEMMA HubStopsTasks ==
    ASSUME Tasks, task \in [Streams -> TaskState], Stops
    PROVE  Tasks'
<1>1. \A s \in Streams : task'[s] = IF Holding(s) THEN "dead" ELSE task[s]
  BY DEF Stops
<1>2. \A s \in Streams : ~(Holding(s)')
  BY <1>1 DEF Holding, Ended
<1>3. Branches \subseteq Streams /\ Sends \subseteq Streams /\ Runs \subseteq Streams /\ Batch[1] \in Branches
  BY StreamSets, StreamAssumption
<1>4. BatchTogether'
  BY <1>1, <1>3 DEF Tasks, BatchTogether, Holding, Ended, Parked
<1>5. {s \in Sends : Holding(s)}' = {} /\ {s \in Runs : Holding(s)}' = {} /\ ~\E b \in Branches : Holding(b)'
  BY <1>2, <1>3
<1>6. slots' = [r \in Router |-> 0]
  BY DEF Stops
<1>7. SlotsCount'
  BY <1>5, <1>6, FS_EmptySet DEF SlotsCount, SlotsHeld, Router
<1>8. QED
  BY <1>2, <1>4, <1>7 DEF Tasks, DownIsQuiet

-----------------------------------------------------------------------------
(* Each action keeps what the streams have done                              *)

\* When one stream moves, only it has to be looked at.
LEMMA OneMoves ==
    ASSUME StreamInv, ChatInv', Tasks', MarksGrow, NEW s \in Streams,
           \A o \in Streams \ {s} : Still(o) /\ (o \in Sends => AnswersKept(o)),
           Fits(s)'
    PROVE  StreamInv'
<1>1. \A o \in Streams \ {s} : Fits(o)'
  BY StillFits
<1>2. QED
  BY <1>1 DEF StreamInv, Tasks

LEMMA InvTasks == StreamInv => Tasks /\ ChatInv /\ task \in [Streams -> TaskState]
BY DEF StreamInv, Tasks, ChatInv, LoopInv

LEMMA SendReadsFits ==
    ASSUME StreamInv, ChatInv', hub' = "up", NEW s \in Streams, NEW c \in Conv, SendReads(s, c)
    PROVE  StreamInv'
<1>1. /\ s \in Sends /\ task[s] = "idle" /\ RouterOf(s) = "send"
      /\ task' = [task EXCEPT ![s] = "read"] /\ home' = [home EXCEPT ![s] = c]
      /\ UNCHANGED <<turns, resp, convSeq, thread, base, seq, outcome, verdict>>
  BY DEF SendReads, RouterOf, convVars, respVars
<1>2. task' = [task EXCEPT ![s] = "read"] /\ task'[s] = "read" /\ \A o \in Streams \ {s} : Still(o)
  BY <1>1, InvTasks DEF Still, ChatInv, LoopInv
<1>3. Tasks'
  BY <1>1, InvTasks, StreamOpens DEF SendReads
<1>4. \A o : AnswersKept(o)
  BY <1>1, IdleKeepsAnswers
<1>5. SendFits(s)'
  BY <1>1, <1>2 DEF StreamInv, Fits, SendFits
<1>6. AnswerFits(s)'
  <2>1. AnswerFits(s)
    BY <1>1 DEF StreamInv, Fits
  <2>2. QED
    BY <1>1, <1>2, <1>4, <2>1, AnswersFit
<1>7. Fits(s)'
  BY <1>1, <1>5, <1>6, StreamSets DEF Fits
<1>8. QED
  BY <1>1, <1>2, <1>3, <1>4, <1>7, InvTasks, MarksStay, OneMoves DEF ChatInv

LEMMA SendWritesFits ==
    ASSUME StreamInv, ChatInv', hub' = "up", NEW s \in Streams, SendWrites(s)
    PROVE  StreamInv'
<1>1. /\ s \in Sends /\ task[s] = "read" /\ s \in Request /\ s \notin Branches
      /\ UNCHANGED <<thread, home, seq, outcome, verdict>>
      /\ seq[s] \in Nat /\ resp[s].committed \in Nat
  <2>1. task[s] = "read" /\ s \notin Advanced
    BY DEF SendWrites, StreamInv, Fits, AttemptFits
  <2>2. QED
    BY <2>1, StreamSets DEF SendWrites, Streams, StreamInv, ChatInv, LoopInv, ResponsesTypeOK
<1>2. /\ SendFits(s) /\ AnswerFits(s) /\ Answers(s) = {}
  BY <1>1 DEF StreamInv, Fits, AnswerFits
<1>3. PICK c, p, i : c = home[s] /\ p = lineage[s].parent /\ i = lineage[s].idx
  OBVIOUS
<1>4. CASE AppendAllowed(c, p, i)
  <2>1. /\ AppendTurn(c, p, i, "user", "complete", s) /\ Begin(s) /\ base' = [base EXCEPT ![s] = Len(turns) + 1]
        /\ task' = [task EXCEPT ![s] = "ready"] /\ slots' = slots
    BY <1>3, <1>4 DEF SendWrites
  <2>2. /\ resp'[s].state = "in_progress" /\ resp'[s].committed = 0 /\ MarksGrow
        /\ \A o \in Streams \ {s} : resp'[o] = resp[o]
    BY <1>1, <2>1, BeginFacts, StreamSets DEF StreamInv, ChatInv
  <2>3. task'[s] = "ready" /\ \A o \in Streams \ {s} : Still(o)
    BY <1>1, <2>1, <2>2, InvTasks DEF Still
  <2>4. Tasks'
    BY <1>1, <2>1, InvTasks, OneTaskMoves DEF Holding, Ended, TaskState
  <2>5. \A o : AnswersKept(o)
    BY <2>1, AppendKeepsAnswers DEF StreamInv, ChatInv
  <2>6. SendFits(s)'
    BY <1>1, <1>2, <2>2, <2>3 DEF SendFits
  <2>7. Answers(s)' = {}
    BY <1>2, <2>5 DEF AnswersKept
  <2>8. AnswerFits(s)'
    BY <2>2, <2>3, <2>7 DEF AnswerFits
  <2>9. Fits(s)'
    BY <1>1, <2>6, <2>8, StreamSets DEF Fits
  <2>10. QED
    BY <2>2, <2>3, <2>4, <2>5, <2>9, OneMoves
<1>5. CASE ~AppendAllowed(c, p, i)
  <2>1. Finish(s, "over") /\ UNCHANGED <<turns, resp, convSeq, base>>
    BY <1>3, <1>5 DEF SendWrites, convVars, respVars
  <2>2. task'[s] = "over" /\ \A o \in Streams \ {s} : Still(o)
    BY <1>1, <2>1, InvTasks DEF Still, Finish
  <2>3. Tasks'
    BY <1>1, <2>1, InvTasks, StreamEnds
  <2>4. \A o : AnswersKept(o)
    BY <2>1, IdleKeepsAnswers
  <2>5. SendFits(s)'
    BY <1>1, <1>2, <2>1, <2>2 DEF SendFits
  <2>6. AnswerFits(s)'
    BY <1>1, <1>2, <2>1, <2>2, <2>4, AnswersFit
  <2>7. Fits(s)'
    BY <1>1, <2>5, <2>6, StreamSets DEF Fits
  <2>8. QED
    BY <2>1, <2>2, <2>3, <2>4, <2>7, InvTasks, MarksStay, OneMoves DEF ChatInv
<1>6. QED
  BY <1>4, <1>5

LEMMA RunForksFits ==
    ASSUME StreamInv, ChatInv', hub' = "up", NEW s \in Streams, NEW c \in Conv, NEW p, RunForks(s, c, p)
    PROVE  StreamInv'
<1>1. /\ s \in Runs /\ s \in Advanced /\ task[s] = "idle" /\ RouterOf(s) = "run"
      /\ task' = [task EXCEPT ![s] = "ready"] /\ home' = [home EXCEPT ![s] = c]
      /\ base' = [base EXCEPT ![s] = Len(turns) + 1]
      /\ UNCHANGED <<resp, convSeq, thread, seq, outcome, verdict>>
  BY StreamSets DEF RunForks, RouterOf, respVars
<1>2. task'[s] = "ready" /\ \A o \in Streams \ {s} : Still(o)
  BY <1>1, InvTasks DEF Still, ChatInv, LoopInv
<1>3. Tasks'
  BY <1>1, InvTasks, StreamOpens DEF RunForks
<1>4. \A o \in Streams \ {s} : AnswersKept(o)
  BY BranchKeepsAnswers DEF RunForks, StreamInv, ChatInv
<1>5. Fits(s)'
  BY <1>1, <1>2, OpeningFits DEF Opening, Parked
<1>6. QED
  BY <1>1, <1>2, <1>3, <1>4, <1>5, InvTasks, MarksStay, OneMoves DEF ChatInv

\* When the branches move together and have not begun.
LEMMA BatchFits ==
    ASSUME StreamInv, ChatInv', Tasks', UNCHANGED respVars,
           \A o \in Streams \ Branches : Still(o) /\ (o \in Sends => AnswersKept(o)),
           \A b \in Branches : Fits(b)'
    PROVE  StreamInv'
<1>1. MarksGrow
  BY InvTasks, MarksStay DEF ChatInv, respVars
<1>2. \A o \in Streams \ Branches : Fits(o)'
  BY <1>1, StillFits
<1>3. QED
  BY <1>2 DEF StreamInv, Tasks

LEMMA DispatchStartsFits ==
    ASSUME StreamInv, ChatInv', hub' = "up", NEW c \in Conv, NEW p, DispatchStarts(c, p)
    PROVE  StreamInv'
<1>1. PICK s \in Branches : s = Batch[1]
  BY StreamSets, StreamAssumption
<1>2. /\ task[s] = "idle" /\ BranchTurn(c, p, "assistant", "streaming", s)
      /\ task' = [task EXCEPT ![s] = "forked"] /\ base' = [base EXCEPT ![s] = Len(turns) + 1]
      /\ home' = [b \in Streams |-> IF b \in Branches THEN c ELSE home[b]]
      /\ UNCHANGED <<respVars, resp, thread, seq, outcome, verdict>>
  BY <1>1 DEF DispatchStarts, respVars
<1>3. \A o \in Streams \ Branches : Still(o)
  BY <1>1, <1>2, InvTasks DEF Still, ChatInv, LoopInv
<1>4. Tasks'
  BY <1>1, <1>2, InvTasks, BatchOpens DEF DispatchStarts
<1>5. \A o \in Sends : AnswersKept(o)
  BY <1>2, BranchKeepsAnswers, StreamSets DEF StreamInv, ChatInv
<1>6. ASSUME NEW b \in Branches
      PROVE  Fits(b)'
  <2>1. task[b] \in Parked
    BY <1>1, <1>2 DEF StreamInv, BatchTogether, Parked
  <2>2. task'[b] \in Parked \cup {"forked"}
    BY <1>2, <2>1, StreamSets, InvTasks
  <2>3. QED
    BY <1>2, <2>1, <2>2, OpeningFits, StreamSets DEF Opening, Parked
<1>7. QED
  BY <1>2, <1>3, <1>4, <1>5, <1>6, BatchFits

LEMMA DispatchForksFits ==
    ASSUME StreamInv, ChatInv', hub' = "up", NEW i \in DOMAIN Batch, DispatchForks(i)
    PROVE  StreamInv'
<1>1. PICK s \in Branches, r \in Branches : s = Batch[i] /\ r = Batch[i - 1]
  <2>1. i - 1 \in DOMAIN Batch
    BY StreamSets DEF DispatchForks
  <2>2. QED
    BY <2>1, StreamSets
<1>2. PICK c, p : c = home[s] /\ p = turns[base[Batch[1]]].parent
  OBVIOUS
<1>3. /\ task[s] = "idle" /\ task[r] = "forked" /\ BranchTurn(c, p, "assistant", "streaming", s)
      /\ base' = [base EXCEPT ![s] = Len(turns) + 1] /\ slots' = slots
      /\ \/ task' = [task EXCEPT ![s] = "forked"]
         \/ task' = [b \in Streams |-> IF b \in Branches THEN "ready" ELSE task[b]]
      /\ UNCHANGED <<respVars, resp, thread, home, seq, outcome, verdict>>
  BY <1>1, <1>2 DEF DispatchForks, respVars
<1>4. \A o \in Streams \ Branches : Still(o)
  BY <1>1, <1>3, InvTasks DEF Still
<1>5. \A o \in Sends : AnswersKept(o)
  BY <1>3, BranchKeepsAnswers, StreamSets DEF StreamInv, ChatInv
<1>6. \A b \in Branches : task[b] \in Parked \cup {"forked"}
  BY <1>3 DEF StreamInv, BatchTogether
<1>7. \A b \in Branches : task'[b] \in Parked \cup {"forked", "ready"}
  BY <1>1, <1>3, <1>6, StreamSets, InvTasks
<1>8. \A b \in Branches : Fits(b)'
  BY <1>3, <1>6, <1>7, OpeningFits, StreamSets DEF Opening, Parked
<1>9. Tasks'
  <2>1. \E b \in Branches : Holding(b)
    BY <1>3 DEF Holding, Ended
  <2>2. CASE task' = [task EXCEPT ![s] = "forked"]
    <3>1. /\ task'[s] = "forked" /\ \A b \in Streams \ {s} : task'[b] = task[b]
          /\ Sends \subseteq Streams /\ Runs \subseteq Streams /\ Branches \subseteq Streams
          /\ s \notin Sends /\ s \notin Runs /\ s # r
      BY <1>1, <1>3, <2>2, StreamSets, StreamAssumption, InvTasks
    <3>2. task'[Batch[1]] \notin Parked
      BY <1>1, <1>3, <2>2, <3>1, StreamSets, StreamAssumption DEF StreamInv, BatchTogether, Parked
    <3>3. BatchTogether'
      BY <1>6, <3>1, <3>2 DEF BatchTogether, Parked
    <3>4. /\ {b \in Sends : Holding(b)}' = {b \in Sends : Holding(b)}
          /\ {b \in Runs : Holding(b)}' = {b \in Runs : Holding(b)}
          /\ (\E b \in Branches : Holding(b))'
      BY <1>3, <3>1 DEF Holding, Ended
    <3>5. QED
      BY <1>3, <2>1, <3>3, <3>4 DEF StreamInv, Tasks, SlotsCount, SlotsHeld, DownIsQuiet
  <2>3. CASE task' = [b \in Streams |-> IF b \in Branches THEN "ready" ELSE task[b]]
    BY <1>3, <2>1, <2>3, InvTasks, BatchMoves
  <2>4. QED
    BY <1>3, <2>2, <2>3
<1>10. QED
  BY <1>3, <1>4, <1>5, <1>8, <1>9, BatchFits

LEMMA DispatchForkFailsFits ==
    ASSUME StreamInv, ChatInv', hub' = "up", NEW i \in DOMAIN Batch, DispatchForkFails(i)
    PROVE  StreamInv'
<1>1. PICK r \in Branches : r = Batch[i - 1]
  <2>1. i - 1 \in DOMAIN Batch
    BY StreamSets DEF DispatchForkFails
  <2>2. QED
    BY <2>1, StreamSets
<1>2. /\ task[r] = "forked"
      /\ task' = [b \in Streams |-> IF b \in Branches THEN "over" ELSE task[b]] /\ Release("batch")
      /\ UNCHANGED <<respVars, resp, thread, home, base, seq, outcome, verdict>>
  BY <1>1 DEF DispatchForkFails, respVars
<1>3. \A o \in Streams \ Branches : Still(o)
  BY <1>2 DEF Still
<1>4. \A o : AnswersKept(o)
  BY ForkFailureSettles, SettlingKeepsAnswers DEF StreamInv, ChatInv
<1>5. \A b \in Branches : task[b] \in Parked \cup {"forked"} /\ task'[b] = "over"
  BY <1>2, StreamSets DEF StreamInv, BatchTogether
<1>6. \A b \in Branches : Fits(b)'
  BY <1>2, <1>5, OpeningFits, StreamSets DEF Opening, Parked
<1>7. Tasks'
  <2>1. \E b \in Branches : Holding(b)
    BY <1>2 DEF Holding, Ended
  <2>2. QED
    BY <1>2, <2>1, InvTasks, BatchMoves
<1>8. QED
  BY <1>2, <1>3, <1>4, <1>6, <1>7, BatchFits

LEMMA BodyStartsFits ==
    ASSUME StreamInv, ChatInv', hub' = "up", NEW s \in Streams, BodyStarts(s)
    PROVE  StreamInv'
<1>1. /\ task[s] = "ready"
      /\ UNCHANGED <<turns, respVars, resp, home, base, seq, outcome, verdict, slots>>
  BY DEF BodyStarts, convVars, respVars
<1>2. \A o : AnswersKept(o)
  BY <1>1, IdleKeepsAnswers
<1>3. CASE s \in Branches
  <2>1. task' = [b \in Streams |-> IF b \in Branches THEN "announced" ELSE task[b]] /\ thread' = thread
    BY <1>3 DEF BodyStarts, SetTasks
  <2>2. \A b \in Branches : task[b] = "ready" /\ task'[b] = "announced"
    BY <1>1, <1>3, <2>1, StreamSets DEF StreamInv, BatchTogether
  <2>3. \A b \in Branches : Fits(b)'
    BY <1>1, <2>1, <2>2, OpeningFits, StreamSets DEF Opening
  <2>4. \A o \in Streams \ Branches : Still(o)
    BY <1>1, <2>1 DEF Still
  <2>5. Holding(s)
    BY <1>1 DEF Holding, Ended
  <2>6. Tasks'
    BY <1>1, <1>3, <2>1, <2>5, InvTasks, BatchMoves
  <2>7. QED
    BY <1>1, <1>2, <2>3, <2>4, <2>6, BatchFits
<1>4. CASE s \notin Branches
  <2>1. /\ task'[s] = "pulling" /\ thread'[s] = "queued"
        /\ \A o \in Streams \ {s} : task'[o] = task[o] /\ thread'[o] = thread[o]
    BY <1>4 DEF BodyStarts, SetTasks, Queue
  <2>2. \A o \in Streams \ {s} : Still(o)
    BY <1>1, <2>1 DEF Still
  <2>3. Tasks'
    <3>1. \A b \in Streams : Holding(b)' = Holding(b)
      BY <1>1, <2>1 DEF Holding, Ended
    <3>2. BatchTogether'
      BY <1>4, <2>1, StreamSets, StreamAssumption DEF StreamInv, BatchTogether
    <3>3. QED
      BY <1>1, <3>1, <3>2, InvTasks, HoldersStay
  <2>4. CASE s \in Advanced
    BY <1>1, <1>2, <2>1, <2>2, <2>3, <2>4, OpeningFits, InvTasks, MarksStay, OneMoves
    DEF Opening, ChatInv, respVars
  <2>5. CASE s \in Sends
    <3>1. SendFits(s)'
      BY <1>1, <2>1, <2>5 DEF StreamInv, Fits, SendFits
    <3>2. AnswerFits(s)'
      BY <1>1, <1>2, <2>1, <2>5, AnswersFit DEF StreamInv, Fits
    <3>3. Fits(s)'
      BY <2>5, <3>1, <3>2, StreamSets DEF Fits
    <3>4. QED
      BY <1>1, <1>2, <2>2, <2>3, <3>3, InvTasks, MarksStay, OneMoves DEF ChatInv, respVars
  <2>6. QED
    BY <2>4, <2>5 DEF Streams
<1>5. QED
  BY <1>3, <1>4

LEMMA BodyNeverStartsFits ==
    ASSUME StreamInv, ChatInv', hub' = "up", NEW s \in Streams, BodyNeverStarts(s)
    PROVE  StreamInv'
<1>1. /\ task[s] = "ready" /\ task' = [b \in Streams |-> IF b \in Group(s) THEN "lost" ELSE task[b]]
      /\ UNCHANGED <<turns, respVars, resp, thread, home, base, seq, outcome, verdict, slots>>
  BY DEF BodyNeverStarts, SetTasks, convVars, respVars
<1>2. \A o : AnswersKept(o)
  BY <1>1, IdleKeepsAnswers
<1>3. CASE s \in Branches
  <2>1. task' = [b \in Streams |-> IF b \in Branches THEN "lost" ELSE task[b]]
    BY <1>1, <1>3 DEF Group
  <2>2. \A b \in Branches : task[b] = "ready" /\ task'[b] = "lost"
    BY <1>1, <1>3, <2>1, StreamSets DEF StreamInv, BatchTogether
  <2>3. \A b \in Branches : Fits(b)'
    BY <1>1, <2>1, <2>2, OpeningFits, StreamSets DEF Opening
  <2>4. \A o \in Streams \ Branches : Still(o)
    BY <1>1, <2>1 DEF Still
  <2>5. Holding(s)
    BY <1>1 DEF Holding, Ended
  <2>6. Tasks'
    BY <1>1, <1>3, <2>1, <2>5, InvTasks, BatchMoves
  <2>7. QED
    BY <1>1, <1>2, <2>3, <2>4, <2>6, BatchFits
<1>4. CASE s \notin Branches
  <2>1. task'[s] = "lost" /\ \A o \in Streams \ {s} : task'[o] = task[o]
    BY <1>1, <1>4 DEF Group
  <2>2. \A o \in Streams \ {s} : Still(o)
    BY <1>1, <2>1 DEF Still
  <2>3. Tasks'
    <3>1. \A b \in Streams : Holding(b)' = Holding(b)
      BY <1>1, <2>1 DEF Holding, Ended
    <3>2. BatchTogether'
      BY <1>4, <2>1, StreamSets, StreamAssumption DEF StreamInv, BatchTogether
    <3>3. QED
      BY <1>1, <3>1, <3>2, InvTasks, HoldersStay
  <2>4. CASE s \in Advanced
    BY <1>1, <1>2, <2>1, <2>2, <2>3, <2>4, OpeningFits, InvTasks, MarksStay, OneMoves
    DEF Opening, ChatInv, respVars
  <2>5. CASE s \in Sends
    <3>1. SendFits(s)'
      BY <1>1, <2>1, <2>5 DEF StreamInv, Fits, SendFits
    <3>2. AnswerFits(s)'
      BY <1>1, <1>2, <2>1, <2>5, AnswersFit DEF StreamInv, Fits
    <3>3. Fits(s)'
      BY <2>5, <3>1, <3>2, StreamSets DEF Fits
    <3>4. QED
      BY <1>1, <1>2, <2>2, <2>3, <3>3, InvTasks, MarksStay, OneMoves DEF ChatInv, respVars
  <2>6. QED
    BY <2>4, <2>5 DEF Streams
<1>5. QED
  BY <1>3, <1>4

LEMMA AnnouncedFits ==
    ASSUME StreamInv, ChatInv', hub' = "up", BranchesStart \/ LeaveAtAnnounce
    PROVE  StreamInv'
<1>1. PICK s \in Branches : task[s] = "announced"
  BY DEF BranchesStart, LeaveAtAnnounce
<1>2. UNCHANGED <<turns, respVars, resp, home, base, seq, outcome, verdict>>
  BY DEF BranchesStart, LeaveAtAnnounce, convVars, respVars
<1>3. \A o : AnswersKept(o)
  BY <1>2, IdleKeepsAnswers
<1>4. PICK how \in {"pulling", "left"} :
         /\ task' = [b \in Streams |-> IF b \in Branches THEN how ELSE task[b]]
         /\ \/ how = "pulling" /\ slots' = slots
               /\ thread' = [b \in Streams |-> IF b \in Branches THEN "queued" ELSE thread[b]]
            \/ how = "left" /\ Release("batch") /\ thread' = thread
  BY DEF BranchesStart, LeaveAtAnnounce, SetTasks, Queue
<1>5. \A b \in Branches : task[b] = "announced" /\ task'[b] = how
  BY <1>1, <1>4, StreamSets DEF StreamInv, BatchTogether
<1>6. ASSUME NEW b \in Branches
      PROVE  Fits(b)'
  <2>1. \/ thread'[b] = thread[b] /\ task'[b] = "left"
        \/ thread'[b] = "queued" /\ task'[b] = "pulling"
    BY <1>4, <1>5, StreamSets
  <2>2. QED
    BY <1>2, <1>5, <2>1, OpeningFits, StreamSets DEF Opening
<1>7. \A o \in Streams \ Branches : Still(o)
  BY <1>2, <1>4 DEF Still
<1>8. Holding(s)
  BY <1>1 DEF Holding, Ended
<1>9. Tasks'
  BY <1>4, <1>8, InvTasks, BatchMoves
<1>10. QED
  BY <1>2, <1>3, <1>6, <1>7, <1>9, BatchFits

LEMMA ClientLeavesFits ==
    ASSUME StreamInv, ChatInv', hub' = "up", NEW s \in Streams, ClientLeaves(s)
    PROVE  StreamInv'
<1>1. /\ task[s] = "pulling"
      /\ \A b \in Streams : task'[b] = IF b \in Group(s) /\ task[b] = "pulling" THEN "leaving" ELSE task[b]
      /\ UNCHANGED <<turns, respVars, resp, convSeq, thread, home, base, seq, outcome, verdict, slots>>
  BY DEF ClientLeaves, convVars, respVars
<1>2. \A o : AnswersKept(o)
  BY <1>1, IdleKeepsAnswers
<1>3. MarksGrow
  BY <1>1, InvTasks, MarksStay DEF ChatInv
<1>4. Tasks'
  <2>1. \A b \in Streams : Holding(b)' = Holding(b)
    BY <1>1 DEF Holding, Ended
  <2>2. BatchTogether'
    <3>1. CASE s \in Branches
      <4>1. \A b \in Branches : task[b] \notin Parked \cup {"forked", "ready", "announced"}
        BY <1>1, <3>1 DEF StreamInv, BatchTogether, Parked
      <4>2. QED
        BY <1>1, <4>1, StreamSets, StreamAssumption DEF BatchTogether, Parked
    <3>2. CASE s \notin Branches
      BY <1>1, <3>2, StreamSets, StreamAssumption DEF StreamInv, BatchTogether, Group
    <3>3. QED
      BY <3>1, <3>2
  <2>3. QED
    BY <1>1, <2>1, <2>2, InvTasks, HoldersStay
<1>5. ASSUME NEW o \in Streams
      PROVE  Fits(o)'
  <2>1. CASE task'[o] = task[o]
    BY <1>1, <1>2, <1>3, <2>1, StillFits DEF Still
  <2>2. CASE task[o] = "pulling" /\ task'[o] = "leaving"
    <3>1. CASE o \in Advanced
      <4>1. AttemptFits(o)'
        BY <1>1, <2>2, <3>1 DEF StreamInv, Fits, AttemptFits, Opening, Parked
      <4>2. QED
        BY <3>1, <4>1, StreamSets DEF Fits
    <3>2. CASE o \in Sends
      <4>1. SendFits(o)'
        BY <1>1, <2>2, <3>2 DEF StreamInv, Fits, SendFits
      <4>2. AnswerFits(o)'
        BY <1>1, <1>2, <2>2, <3>2, AnswersFit DEF StreamInv, Fits
      <4>3. QED
        BY <3>2, <4>1, <4>2, StreamSets DEF Fits
    <3>3. QED
      BY <3>1, <3>2 DEF Streams
  <2>3. QED
    BY <1>1, <2>1, <2>2
<1>6. QED
  BY <1>4, <1>5 DEF StreamInv, Tasks

\* A step of the thread of s, seen from the rest.
ThreadMoves(s) ==
    /\ UNCHANGED <<turns, task, home, base, slots>>
    /\ \A o \in Streams \ {s} : UNCHANGED <<resp[o], thread[o], seq[o], outcome[o], verdict[o]>>
    /\ MarksGrow
    /\ thread[s] \in {"queued"} \cup Executing

LEMMA ThreadMovesFits ==
    ASSUME StreamInv, ChatInv', hub' = "up", hub = "up", NEW s \in Streams, ThreadMoves(s),
           s \in Advanced => AttemptFits(s)',
           s \in Sends => SendFits(s)' /\ (resp'[s].state = "completed" => resp[s].state = "completed")
    PROVE  StreamInv'
<1>1. \A o : AnswersKept(o)
  BY IdleKeepsAnswers DEF ThreadMoves
<1>2. Tasks'
  BY InvTasks, TasksStay DEF ThreadMoves
<1>3. \A o \in Streams \ {s} : Still(o)
  BY DEF ThreadMoves, Still
<1>4. ASSUME s \in Sends
      PROVE  AnswerFits(s)'
  BY <1>1, <1>4, AnswersFit DEF StreamInv, Fits, SendFits, ThreadMoves, Executing
<1>5. Fits(s)'
  BY <1>4 DEF Fits
<1>6. QED
  BY <1>1, <1>2, <1>3, <1>5, OneMoves DEF ThreadMoves

LEMMA ThreadFits ==
    ASSUME StreamInv, ChatInv', hub' = "up", hub = "up", NEW s \in Streams, ThreadStep(s)
    PROVE  StreamInv'
<1>1. /\ s \in Request /\ home[s] \in Conv /\ seq[s] \in Nat /\ resp[s].committed \in Nat
      /\ ResponsesTypeOK /\ thread \in [Streams -> ThreadState]
      /\ convSeq[home[s]] \in Nat /\ convSeq'[home[s]] \in Nat
  BY StreamSets DEF StreamInv, ChatInv, LoopInv, ResponsesTypeOK
<1>2. PICK c \in Conv, n \in Nat : c = home[s] /\ n = seq[s]
  BY <1>1
<1>3. (s \in Advanced => AttemptFits(s)) /\ (s \in Sends => SendFits(s)) /\ Sends \cap Advanced = {}
  BY StreamSets DEF StreamInv, Fits
<1>4. CASE ThreadEnters(s)
  <2>1. /\ UNCHANGED <<turns, task, home, base, slots, resp, convSeq, seq, outcome, verdict>>
        /\ thread[s] = "queued"
        /\ thread' = [thread EXCEPT ![s] = IF resp[s].state = "absent" THEN "entered" ELSE "reading"]
    BY <1>4 DEF ThreadEnters, convVars, respVars
  <2>2. ThreadMoves(s)
    BY <1>1, <2>1, MarksStay DEF ThreadMoves
  <2>3. s \in Advanced => AttemptFits(s)'
    BY <1>1, <1>3, <2>1 DEF AttemptFits
  <2>4. s \in Sends => SendFits(s)'
    BY <1>1, <1>3, <2>1 DEF SendFits
  <2>5. QED
    BY <2>1, <2>2, <2>3, <2>4, ThreadMovesFits
<1>5. CASE ThreadBegins(s)
  <2>1. /\ UNCHANGED <<turns, task, home, base, slots, seq, outcome, verdict>>
        /\ thread[s] = "entered" /\ Begin(s) /\ thread' = [thread EXCEPT ![s] = "reading"]
    BY <1>5 DEF ThreadBegins, convVars
  <2>2. /\ resp[s].state = "absent" /\ resp'[s].state = "in_progress" /\ resp'[s].committed = 0
        /\ \A o \in Request \ {s} : resp'[o] = resp[o]
        /\ MarksGrow
    BY <1>1, <2>1, BeginFacts
  <2>3. ThreadMoves(s)
    BY <1>1, <2>1, <2>2, StreamSets DEF ThreadMoves, Executing
  <2>4. s \in Advanced => AttemptFits(s)'
    BY <1>1, <1>3, <2>1, <2>2 DEF AttemptFits
  <2>5. s \in Sends => SendFits(s)'
    BY <1>1, <1>3, <2>1, <2>2 DEF SendFits
  <2>6. QED
    BY <2>2, <2>3, <2>4, <2>5, ThreadMovesFits
<1>6. CASE ThreadReads(s)
  <2>1. /\ UNCHANGED <<turns, task, home, base, slots, resp, verdict>>
        /\ thread[s] = "reading"
        /\ \A o \in Streams \ {s} : UNCHANGED <<thread[o], outcome[o]>>
    BY <1>6 DEF ThreadReads, convVars, respVars, DrawSeq, StreamInv, ChatInv, LoopInv
  <2>2. CASE s \in Sends
    <3>1. /\ convSeq' = convSeq /\ seq' = [seq EXCEPT ![s] = @ + 1]
          /\ thread'[s] \in {"gotDelta", "gotTerminal"}
      BY <1>1, <1>6, <2>2 DEF ThreadReads, respVars
    <3>2. seq'[s] = seq[s] + 1 /\ \A o \in Streams \ {s} : seq'[o] = seq[o]
      BY <3>1 DEF StreamInv, ChatInv, LoopInv
    <3>3. ThreadMoves(s)
      BY <1>1, <2>1, <3>1, <3>2, MarksStay DEF ThreadMoves, Executing
    <3>4. SendFits(s)'
      BY <1>1, <1>3, <2>1, <2>2, <3>1, <3>2 DEF SendFits
    <3>5. QED
      BY <1>3, <2>1, <2>2, <3>3, <3>4, ThreadMovesFits
  <2>3. CASE s \in Advanced
    <3>1. /\ DrawSeq(c) /\ seq' = [seq EXCEPT ![s] = convSeq[c] + 1]
          /\ thread'[s] \in {"drawnDelta", "drawnTerminal"}
      BY <1>1, <1>2, <1>3, <1>6, <2>3 DEF ThreadReads
    <3>2. /\ seq'[s] = convSeq[c] + 1 /\ (\A o \in Streams \ {s} : seq'[o] = seq[o])
          /\ convSeq'[c] = convSeq[c] + 1 /\ MarksGrow
      BY <1>1, <3>1, DrawFacts DEF StreamInv, ChatInv, LoopInv
    <3>3. ThreadMoves(s)
      BY <1>1, <2>1, <3>1, <3>2 DEF ThreadMoves, Executing
    <3>4. AttemptFits(s)'
      BY <1>1, <1>2, <1>3, <2>1, <2>3, <3>1, <3>2 DEF AttemptFits
    <3>5. QED
      BY <1>3, <2>1, <2>3, <3>3, <3>4, ThreadMovesFits
  <2>4. QED
    BY <2>2, <2>3 DEF Streams
<1>7. CASE ThreadCommits(s)
  <2>1. /\ UNCHANGED <<turns, task, home, base, slots, seq, outcome, verdict>>
        /\ thread[s] = "drawnDelta" /\ s \in Advanced
    BY <1>3, <1>7 DEF ThreadCommits, convVars, SendFits, Streams
  <2>2. CASE MayCommit(s, n)
    <3>1. Advance(s, c, "in_progress", n) /\ thread' = [thread EXCEPT ![s] = "gotDelta"]
      BY <1>2, <1>7, <2>2 DEF ThreadCommits
    <3>2. /\ resp'[s].state = "in_progress" /\ resp'[s].committed = n /\ n <= convSeq'[c]
          /\ \A o \in Request \ {s} : resp'[o] = resp[o]
          /\ MarksGrow
      BY <1>1, <3>1, AdvanceFacts
    <3>3. ThreadMoves(s)
      BY <1>1, <2>1, <3>1, <3>2, StreamSets DEF ThreadMoves, Executing
    <3>4. AttemptFits(s)'
      BY <1>1, <1>2, <1>3, <2>1, <3>1, <3>2 DEF AttemptFits
    <3>5. QED
      BY <1>3, <2>1, <3>3, <3>4, ThreadMovesFits
  <2>3. CASE ~MayCommit(s, n)
    <3>1. UNCHANGED <<resp, convSeq>> /\ thread' = [thread EXCEPT ![s] = "closed"]
      BY <1>2, <1>7, <2>3 DEF ThreadCommits, respVars
    <3>2. ThreadMoves(s)
      BY <1>1, <2>1, <3>1, MarksStay DEF ThreadMoves, Executing
    <3>3. AttemptFits(s)'
      BY <1>1, <1>3, <2>1, <3>1 DEF AttemptFits
    <3>4. QED
      BY <1>3, <2>1, <3>2, <3>3, ThreadMovesFits
  <2>4. QED
    BY <2>2, <2>3
<1>8. CASE ThreadSettles(s)
  <2>1. /\ UNCHANGED <<turns, task, home, base, slots, seq, outcome>>
        /\ thread[s] = "drawnTerminal" /\ s \in Advanced
    BY <1>3, <1>8 DEF ThreadSettles, convVars, SendFits, Streams
  <2>2. PICK state, status :
           IF MayCommit(s, n)
           THEN /\ Advance(s, c, state, n)
                /\ verdict' = [verdict EXCEPT ![s] = status]
                /\ thread' = [thread EXCEPT ![s] = "gotTerminal"]
           ELSE /\ UNCHANGED <<respVars, verdict>>
                /\ thread' = [thread EXCEPT ![s] = "closed"]
    BY <1>2, <1>8 DEF ThreadSettles
  <2>3. CASE MayCommit(s, n)
    <3>1. /\ Advance(s, c, state, n) /\ thread' = [thread EXCEPT ![s] = "gotTerminal"]
          /\ verdict' = [verdict EXCEPT ![s] = status]
      BY <2>2, <2>3
    <3>2. /\ resp'[s].committed = n /\ n <= convSeq'[c]
          /\ \A o \in Request \ {s} : resp'[o] = resp[o]
          /\ MarksGrow
      BY <1>1, <3>1, AdvanceFacts
    <3>3. ThreadMoves(s)
      BY <1>1, <2>1, <3>1, <3>2, StreamSets DEF ThreadMoves, Executing, StreamInv, ChatInv, LoopInv
    <3>4. AttemptFits(s)'
      BY <1>1, <1>2, <1>3, <2>1, <3>1, <3>2 DEF AttemptFits
    <3>5. QED
      BY <1>3, <2>1, <3>3, <3>4, ThreadMovesFits
  <2>4. CASE ~MayCommit(s, n)
    <3>1. UNCHANGED <<resp, convSeq, verdict>> /\ thread' = [thread EXCEPT ![s] = "closed"]
      BY <2>2, <2>4 DEF respVars
    <3>2. ThreadMoves(s)
      BY <1>1, <2>1, <3>1, MarksStay DEF ThreadMoves, Executing
    <3>3. AttemptFits(s)'
      BY <1>1, <1>3, <2>1, <3>1 DEF AttemptFits
    <3>4. QED
      BY <1>3, <2>1, <3>2, <3>3, ThreadMovesFits
  <2>5. QED
    BY <2>3, <2>4
<1>9. QED
  BY <1>4, <1>5, <1>6, <1>7, <1>8 DEF ThreadStep

LEMMA YieldsDeltaFits ==
    ASSUME StreamInv, ChatInv', hub' = "up", NEW s \in Streams, YieldsDelta(s)
    PROVE  StreamInv'
<1>1. /\ task[s] = "pulling" /\ thread[s] = "gotDelta" /\ thread' = [thread EXCEPT ![s] = "queued"]
      /\ UNCHANGED <<turns, task, home, base, seq, outcome, verdict, slots>>
      /\ s \in Request /\ home[s] \in Conv /\ seq[s] \in Nat /\ ResponsesTypeOK
      /\ thread \in [Streams -> ThreadState]
  BY StreamSets DEF YieldsDelta, convVars, StreamInv, ChatInv, LoopInv
<1>2. PICK c \in Conv, n \in Nat : c = home[s] /\ n = seq[s]
  BY <1>1
<1>3. \A o : AnswersKept(o)
  BY <1>1, IdleKeepsAnswers
<1>4. Tasks'
  BY <1>1 DEF StreamInv, Tasks, DownIsQuiet, BatchTogether, SlotsCount, SlotsHeld, Holding
<1>5. CASE s \in Sends
  <2>1. Advance(s, c, "in_progress", n)
    BY <1>2, <1>5 DEF YieldsDelta
  <2>2. /\ resp'[s].state = "in_progress" /\ resp'[s].committed = n
        /\ \A o \in Request \ {s} : resp'[o] = resp[o]
        /\ MarksGrow
    BY <1>1, <2>1, AdvanceFacts
  <2>3. \A o \in Streams \ {s} : Still(o)
    BY <1>1, <2>2, StreamSets DEF Still
  <2>4. SendFits(s)'
    BY <1>1, <1>2, <1>5, <2>2 DEF StreamInv, Fits, SendFits
  <2>5. AnswerFits(s)'
    BY <1>1, <1>3, <1>5, <2>2, AnswersFit DEF StreamInv, Fits
  <2>6. Fits(s)'
    BY <1>5, <2>4, <2>5, StreamSets DEF Fits
  <2>7. QED
    BY <1>3, <1>4, <2>2, <2>3, <2>6, OneMoves
<1>6. CASE s \in Advanced
  <2>1. UNCHANGED <<resp, convSeq>>
    BY <1>6, StreamSets DEF YieldsDelta, respVars
  <2>2. \A o \in Streams \ {s} : Still(o)
    BY <1>1, <2>1 DEF Still
  <2>3. AttemptFits(s)'
    BY <1>1, <1>6, <2>1 DEF StreamInv, Fits, AttemptFits, Opening, Parked
  <2>4. Fits(s)'
    BY <1>6, <2>3, StreamSets DEF Fits
  <2>5. QED
    BY <1>1, <1>3, <1>4, <2>1, <2>2, <2>4, MarksStay, OneMoves
<1>7. QED
  BY <1>5, <1>6 DEF Streams

LEMMA PersistAnswerFits ==
    ASSUME StreamInv, ChatInv', hub' = "up", NEW s \in Streams, PersistAnswer(s)
    PROVE  StreamInv'
<1>1. /\ s \in Sends /\ s \notin Branches /\ task[s] = "pulling" /\ thread[s] = "gotTerminal"
      /\ task' = [task EXCEPT ![s] = "answering"]
      /\ UNCHANGED <<resp, convSeq, thread, home, base, seq, outcome, verdict, slots>>
      /\ outcome[s] \in StreamOutcome
  BY StreamSets DEF PersistAnswer, respVars, StreamInv, ChatInv, LoopInv
<1>2. PICK c, p, status : c = home[s] /\ p = base[s] /\ status = TurnStatusFor(outcome[s])
  BY <1>1
<1>3. AppendTurn(c, p, 0, "assistant", status, s) /\ status # "streaming"
  BY <1>1, <1>2, OutcomeFacts DEF PersistAnswer, TerminalTurnStatus
<1>4. \A o \in Streams \ {s} : AnswersKept(o)
  BY <1>3, AppendKeepsAnswers DEF StreamInv, ChatInv
<1>5. Answers(s) = {} /\ SendFits(s) /\ AnswerFits(s)
  BY <1>1 DEF StreamInv, Fits, AnswerFits
<1>6. PICK t : Answers(s)' = {t} /\ turns'[t].status = status /\ turns'[t].parent = p
  BY <1>3, <1>5, FirstAnswer DEF StreamInv, ChatInv
<1>7. task'[s] = "answering" /\ \A o \in Streams \ {s} : Still(o)
  BY <1>1, InvTasks DEF Still
<1>8. Tasks'
  BY <1>1, InvTasks, OneTaskMoves DEF Holding, Ended, TaskState
<1>9. SendFits(s)'
  BY <1>1, <1>5, <1>7 DEF SendFits
<1>10. resp'[s].state = "in_progress"
  BY <1>1, <1>5 DEF SendFits
<1>11. AnswerFits(s)'
  BY <1>1, <1>2, <1>3, <1>6, <1>7, <1>10 DEF AnswerFits
<1>12. Fits(s)'
  BY <1>1, <1>9, <1>11, StreamSets DEF Fits
<1>13. QED
  BY <1>1, <1>4, <1>7, <1>8, <1>12, InvTasks, MarksStay, OneMoves DEF ChatInv

LEMMA PersistFailsFits ==
    ASSUME StreamInv, ChatInv', hub' = "up", NEW s \in Streams, PersistFails(s)
    PROVE  StreamInv'
<1>1. /\ s \in Sends /\ task[s] = "pulling" /\ thread[s] = "gotTerminal" /\ Finish(s, "over")
      /\ UNCHANGED <<turns, thread, home, base, seq, outcome, verdict>>
      /\ s \in Request /\ home[s] \in Conv /\ seq[s] \in Nat /\ ResponsesTypeOK
  BY StreamSets DEF PersistFails, convVars, StreamInv, ChatInv, LoopInv
<1>2. PICK c \in Conv, n \in Nat : c = home[s] /\ n = seq[s]
  BY <1>1
<1>3. Advance(s, c, "interrupted", n)
  BY <1>2 DEF PersistFails, LifecycleFor
<1>4. /\ resp'[s].state = "interrupted" /\ resp'[s].committed = n
      /\ \A o \in Request \ {s} : resp'[o] = resp[o]
      /\ MarksGrow
  BY <1>1, <1>3, AdvanceFacts
<1>5. \A o : AnswersKept(o)
  BY <1>1, IdleKeepsAnswers
<1>6. task'[s] = "over" /\ \A o \in Streams \ {s} : Still(o)
  BY <1>1, <1>4, StreamSets, InvTasks DEF Still, Finish
<1>7. Tasks'
  BY <1>1, InvTasks, StreamEnds
<1>8. SendFits(s)'
  BY <1>1, <1>2, <1>4, <1>6 DEF StreamInv, Fits, SendFits
<1>9. AnswerFits(s)'
  BY <1>1, <1>4, <1>5, <1>6, AnswersFit DEF StreamInv, Fits
<1>10. Fits(s)'
  BY <1>1, <1>8, <1>9, StreamSets DEF Fits
<1>11. QED
  BY <1>4, <1>5, <1>6, <1>7, <1>10, OneMoves

LEMMA CommitAnswerFits ==
    ASSUME StreamInv, ChatInv', hub' = "up", NEW s \in Streams, CommitAnswer(s)
    PROVE  StreamInv'
<1>1. /\ s \in Sends /\ task[s] = "answering" /\ Finish(s, "over")
      /\ UNCHANGED <<turns, thread, home, base, seq, outcome, verdict>>
      /\ s \in Request /\ home[s] \in Conv /\ seq[s] \in Nat /\ ResponsesTypeOK
      /\ outcome[s] \in StreamOutcome
  BY StreamSets DEF CommitAnswer, convVars, StreamInv, ChatInv, LoopInv, Fits, AttemptFits, Streams
<1>2. PICK c, n, state : c \in Conv /\ n \in Nat /\ c = home[s] /\ n = seq[s]
                         /\ state = LifecycleFor(outcome[s])
  BY <1>1
<1>3. Advance(s, c, state, n)
  BY <1>2 DEF CommitAnswer
<1>4. /\ resp'[s].state = state /\ resp'[s].committed = n
      /\ \A o \in Request \ {s} : resp'[o] = resp[o]
      /\ MarksGrow
  BY <1>1, <1>2, <1>3, AdvanceFacts
<1>5. AnswersKept(s) /\ \A o : AnswersKept(o)
  BY <1>1, IdleKeepsAnswers
<1>6. task'[s] = "over" /\ \A o \in Streams \ {s} : Still(o)
  BY <1>1, <1>4, StreamSets, InvTasks DEF Still, Finish
<1>7. Tasks'
  BY <1>1, InvTasks, StreamEnds
<1>8. SendFits(s)'
  BY <1>1, <1>2, <1>4, <1>6 DEF StreamInv, Fits, SendFits
<1>9. state = "completed" => TurnStatusFor(outcome[s]) = "complete"
  BY <1>1, <1>2 DEF LifecycleFor, TurnStatusFor, StreamOutcome
<1>10. PICK t \in Answers(s) : turns[t].status = TurnStatusFor(outcome[s]) /\ turns[t].parent = base[s]
  BY <1>1 DEF StreamInv, Fits, AnswerFits
<1>11. AnswerFits(s) /\ turns' = turns
  BY <1>1 DEF StreamInv, Fits
<1>12. AnswerFits(s)'
  BY <1>1, <1>4, <1>5, <1>6, <1>9, <1>10, <1>11 DEF AnswerFits, AnswersKept
<1>13. Fits(s)'
  BY <1>1, <1>8, <1>12, StreamSets DEF Fits
<1>14. QED
  BY <1>4, <1>5, <1>6, <1>7, <1>13, OneMoves

LEMMA FinishAttemptFits ==
    ASSUME StreamInv, ChatInv', hub' = "up", NEW s \in Streams, FinishAttempt(s)
    PROVE  StreamInv'
<1>1. /\ s \in Advanced /\ s \notin Sends /\ task[s] = "pulling" /\ thread[s] = "gotTerminal"
      /\ Finish(s, "over")
      /\ UNCHANGED <<resp, convSeq, thread, home, base, seq, outcome, verdict>>
  BY StreamSets DEF FinishAttempt, respVars
<1>2. PICK t, status : t = base[s] /\ status = verdict[s]
  BY <1>1
<1>3. status \in TerminalTurnStatus
  BY <1>1, <1>2 DEF StreamInv, ChatInv, LoopInv
<1>4. \A o : AnswersKept(o)
  <2>1. CASE AdvanceTurn(t, status)
    BY <1>3, <2>1, AdvanceTurnSettles, SettlingKeepsAnswers DEF StreamInv, ChatInv
  <2>2. CASE UNCHANGED convVars
    BY <2>2, IdleKeepsAnswers DEF convVars
  <2>3. QED
    BY <1>2, <2>1, <2>2 DEF FinishAttempt
<1>5. task'[s] = "over" /\ \A o \in Streams \ {s} : Still(o)
  BY <1>1, InvTasks DEF Still, Finish
<1>6. Tasks'
  BY <1>1, InvTasks, StreamEnds
<1>7. AttemptFits(s)'
  BY <1>1, <1>5 DEF StreamInv, Fits, AttemptFits, Opening, Parked
<1>8. Fits(s)'
  BY <1>1, <1>7 DEF Fits
<1>9. QED
  BY <1>1, <1>4, <1>5, <1>6, <1>8, InvTasks, MarksStay, OneMoves DEF ChatInv

\* What a partial settlement says is never a completion.
LEMMA PartialFacts ==
    ASSUME NEW o
    PROVE  /\ LifecycleFor(PartialOutcome(o)) \in {"cancelled", "timed_out", "interrupted"}
           /\ TurnStatusFor(PartialOutcome(o)) # "complete"
BY DEF PartialOutcome, LifecycleFor, TurnStatusFor

LEMMA SettleResponseFits ==
    ASSUME StreamInv, ChatInv', hub' = "up", NEW s \in Streams, SettleResponse(s)
    PROVE  StreamInv'
<1>1. /\ task[s] = "leaving" /\ task' = [task EXCEPT ![s] = "settling"]
      /\ thread' = [thread EXCEPT ![s] = IF @ \in Executing THEN @ ELSE "closed"]
      /\ UNCHANGED <<turns, home, base, outcome, slots>>
      /\ s \in Request /\ home[s] \in Conv /\ seq[s] \in Nat /\ ResponsesTypeOK
      /\ thread \in [Streams -> ThreadState] /\ resp[s].committed \in Nat
  BY StreamSets DEF SettleResponse, convVars, StreamInv, ChatInv, LoopInv, ResponsesTypeOK
<1>2. PICK c \in Conv, n \in Nat : c = home[s] /\ n = seq[s] + 1
  BY <1>1
<1>3. \A o : AnswersKept(o)
  BY <1>1, IdleKeepsAnswers
<1>4. task'[s] = "settling" /\ \A o \in Streams \ {s} : task'[o] = task[o] /\ thread'[o] = thread[o]
  BY <1>1, InvTasks
<1>5. Tasks'
  BY <1>1, InvTasks, OneTaskMoves DEF Holding, Ended, TaskState
<1>6. CASE s \in Sends
  <2>1. PICK state, status : state = LifecycleFor(PartialOutcome(outcome[s]))
                             /\ status = TurnStatusFor(PartialOutcome(outcome[s]))
    OBVIOUS
  <2>2. state \in {"cancelled", "timed_out", "interrupted"} /\ status # "complete"
    BY <2>1, PartialFacts
  <2>3. SendFits(s) /\ AnswerFits(s) /\ MayCommit(s, n)
    BY <1>1, <1>2, <1>6 DEF StreamInv, Fits, SendFits, MayCommit
  <2>4. /\ Advance(s, c, state, n)
        /\ verdict' = [verdict EXCEPT ![s] = status] /\ seq' = [seq EXCEPT ![s] = n]
    BY <1>1, <1>2, <1>6, <2>1, <2>3 DEF SettleResponse
  <2>5. /\ resp'[s].state = state /\ resp'[s].committed = n
        /\ \A o \in Request \ {s} : resp'[o] = resp[o]
        /\ MarksGrow
    BY <1>1, <2>4, AdvanceFacts
  <2>6. /\ verdict'[s] = status /\ seq'[s] = n
        /\ \A o \in Streams \ {s} : verdict'[o] = verdict[o] /\ seq'[o] = seq[o]
    BY <2>4 DEF StreamInv, ChatInv, LoopInv
  <2>7. \A o \in Streams \ {s} : Still(o)
    BY <1>1, <1>4, <2>5, <2>6, StreamSets DEF Still
  <2>8. thread'[s] \notin {"drawnDelta", "drawnTerminal"}
    BY <1>1, <2>3 DEF SendFits
  <2>9. SendFits(s)'
    BY <1>1, <1>4, <2>2, <2>5, <2>6, <2>8 DEF SendFits
  <2>10. AnswerFits(s)'
    BY <1>1, <1>3, <1>4, <2>2, <2>3, <2>5, AnswersFit
  <2>11. Fits(s)'
    BY <1>6, <2>9, <2>10, StreamSets DEF Fits
  <2>12. QED
    BY <1>3, <1>5, <2>5, <2>7, <2>11, OneMoves
<1>7. CASE s \in Advanced
  <2>1. /\ UNCHANGED <<verdict, seq>>
        /\ AdvanceUnnumbered(s, "cancelled") \/ UNCHANGED <<resp, convSeq>>
    BY <1>7, StreamSets DEF SettleResponse, respVars
  <2>2. /\ resp'[s].committed = resp[s].committed /\ MarksGrow
        /\ \A o \in Request \ {s} : resp'[o] = resp[o]
    BY <1>1, <2>1, UnnumberedFacts, MarksStay
  <2>3. \A o \in Streams \ {s} : Still(o)
    BY <1>1, <1>4, <2>1, <2>2, StreamSets DEF Still
  <2>4. /\ convSeq[home[s]] \in Nat /\ convSeq'[home[s]] \in Nat
        /\ convSeq'[home[s]] >= convSeq[home[s]]
    BY <1>1, <2>2, StreamSets DEF MarksGrow, StreamInv, ChatInv, ResponsesTypeOK
  <2>5. AttemptFits(s)'
    BY <1>1, <1>4, <1>7, <2>2, <2>4 DEF StreamInv, Fits, AttemptFits, Opening, Parked
  <2>6. Fits(s)'
    BY <1>7, <2>5, StreamSets DEF Fits
  <2>7. QED
    BY <1>3, <1>5, <2>2, <2>3, <2>6, OneMoves
<1>8. QED
  BY <1>6, <1>7 DEF Streams

LEMMA SettleTurnFits ==
    ASSUME StreamInv, ChatInv', hub' = "up", NEW s \in Streams, SettleTurn(s)
    PROVE  StreamInv'
<1>1. /\ task[s] = "settling" /\ Finish(s, "left")
      /\ UNCHANGED <<resp, convSeq, thread, home, base, seq, outcome, verdict>>
  BY DEF SettleTurn, respVars
<1>2. task'[s] = "left" /\ \A o \in Streams \ {s} : Still(o)
  BY <1>1, InvTasks DEF Still, Finish
<1>3. Tasks'
  BY <1>1, InvTasks, StreamEnds
<1>4. PICK c, p, status : c = home[s] /\ p = base[s] /\ status = verdict[s]
  OBVIOUS
<1>5. CASE s \in Sends
  <2>1. /\ SendFits(s) /\ AnswerFits(s) /\ Answers(s) = {}
        /\ status \in TerminalTurnStatus /\ status # "complete"
    BY <1>1, <1>4, <1>5 DEF StreamInv, Fits, SendFits, AnswerFits, ChatInv, LoopInv
  <2>2. AppendTurn(c, p, 0, "assistant", status, s) \/ turns' = turns
    BY <1>4, <1>5 DEF SettleTurn, convVars
  <2>3. \A o \in Streams \ {s} : AnswersKept(o)
    BY <2>2, AppendKeepsAnswers, IdleKeepsAnswers DEF StreamInv, ChatInv
  <2>4. \/ Answers(s)' = {}
        \/ \E t : Answers(s)' = {t} /\ turns'[t].status = status
    <3>1. CASE turns' = turns
      BY <2>1, <3>1, IdleKeepsAnswers DEF AnswersKept
    <3>2. CASE AppendTurn(c, p, 0, "assistant", status, s)
      <4>1. PICK i : i = 0
        OBVIOUS
      <4>2. AppendTurn(c, p, i, "assistant", status, s)
        BY <3>2, <4>1
      <4>3. QED
        BY <2>1, <4>2, FirstAnswer DEF StreamInv, ChatInv
    <3>3. QED
      BY <2>2, <3>1, <3>2
  <2>5. SendFits(s)'
    BY <1>1, <1>2, <2>1 DEF SendFits
  <2>6. resp'[s].state # "completed"
    BY <1>1, <2>1 DEF SendFits
  <2>7. AnswerFits(s)'
    BY <1>2, <2>1, <2>4, <2>6 DEF AnswerFits, TerminalTurnStatus
  <2>8. Fits(s)'
    BY <1>5, <2>5, <2>7, StreamSets DEF Fits
  <2>9. QED
    BY <1>1, <1>2, <1>3, <2>3, <2>8, InvTasks, MarksStay, OneMoves DEF ChatInv
<1>6. CASE s \in Advanced
  <2>1. \A o : AnswersKept(o)
    <3>1. CASE AdvanceTurn(p, "cancelled")
      BY <3>1, AdvanceTurnSettles, SettlingKeepsAnswers DEF StreamInv, ChatInv, TerminalTurnStatus
    <3>2. CASE turns' = turns
      BY <3>2, IdleKeepsAnswers
    <3>3. QED
      BY <1>4, <1>6, <3>1, <3>2, StreamSets DEF SettleTurn, convVars
  <2>2. AttemptFits(s)'
    BY <1>1, <1>2, <1>6 DEF StreamInv, Fits, AttemptFits, Opening, Parked
  <2>3. Fits(s)'
    BY <1>6, <2>2, StreamSets DEF Fits
  <2>4. QED
    BY <1>1, <1>2, <1>3, <2>1, <2>3, InvTasks, MarksStay, OneMoves DEF ChatInv
<1>7. QED
  BY <1>5, <1>6 DEF Streams

\* The browser's own requests and retention touch no stream.
LEMMA ClientFits ==
    ASSUME StreamInv, ChatInv', hub' = "up", hub = "up", ClientStep \/ RetentionStep
    PROVE  StreamInv'
<1>1. UNCHANGED <<respVars, resp, convSeq, loopVars, task, thread, home, base, seq, outcome, verdict, slots>>
  BY DEF ClientStep, RetentionStep, respVars, loopVars
<1>2. Tasks'
  BY <1>1, InvTasks, TasksStay
<1>3. ConvInv /\ Client \notin Streams
  BY StreamAssumption DEF StreamInv, ChatInv
<1>4. ASSUME NEW s \in Streams
      PROVE  AnswersKept(s)
  <2>1. CASE RowsSettle
    BY <1>3, <2>1, SettlingKeepsAnswers
  <2>2. ASSUME NEW c, NEW p, NEW i, NEW status, ClientAppends(c, p, i, status)
        PROVE  AnswersKept(s)
    BY <1>3, <2>2, AppendKeepsAnswers DEF ClientAppends
  <2>3. ASSUME NEW c, NEW p, NEW status, ClientBranches(c, p, status)
        PROVE  AnswersKept(s)
    BY <1>3, <2>3, BranchKeepsAnswers DEF ClientBranches
  <2>4. ASSUME NEW c, NEW t, NEW status, ClientRetries(c, t, status)
        PROVE  AnswersKept(s)
    <3>1. PICK p : p = turns[t].parent
      OBVIOUS
    <3>2. BranchTurn(c, p, "user", status, Client)
      BY <2>4, <3>1 DEF ClientRetries, RetryTurn
    <3>3. QED
      BY <1>3, <3>2, BranchKeepsAnswers
  <2>5. ASSUME NEW status \in ClientStatus, status # "streaming", NEW t, AdvanceTurn(t, status)
        PROVE  AnswersKept(s)
    <3>1. status \in TerminalTurnStatus
      BY <2>5, StreamAssumption DEF TurnStatus
    <3>2. QED
      BY <1>3, <2>1, <2>5, <3>1, AdvanceTurnSettles
  <2>6. ASSUME NEW c \in Conv,
               \/ CreateConversation(c) \/ ArchiveConversation(c) \/ UnarchiveConversation(c)
               \/ \E mode \in {"tombstone", "erase"} : DeleteConversation(c, mode)
        PROVE  AnswersKept(s)
    BY <1>3, <2>1, <2>6, ConversationSettles, DeleteSettles
  <2>7. ASSUME NEW E \in SUBSET Conv, EnforceRetention(E)
        PROVE  AnswersKept(s)
    BY <1>3, <2>1, <2>7, RetentionSettles
  <2>8. QED
    BY <2>2, <2>3, <2>4, <2>5, <2>6, <2>7 DEF ClientStep, RetentionStep
<1>5. \A s \in Streams : Still(s)
  BY <1>1 DEF Still
<1>6. \A s \in Streams : Fits(s)'
  BY <1>1, <1>4, <1>5, InvTasks, MarksStay, StillFits DEF ChatInv
<1>7. QED
  BY <1>2, <1>6 DEF StreamInv, Tasks

LEMMA HubStopsFits ==
    ASSUME StreamInv, ChatInv', HubStops \/ HubStopsInDeletion
    PROVE  StreamInv'
<1>1. /\ Stops
      /\ UNCHANGED <<resp, convSeq, home, base, seq, outcome, verdict>>
      /\ thread' = [s \in Streams |-> "closed"]
      /\ \A s \in Streams : task'[s] = IF Holding(s) THEN "dead" ELSE task[s]
  BY DEF HubStops, HubStopsInDeletion, Stops, respVars
<1>2. Tasks'
  BY <1>1, InvTasks, HubStopsTasks
<1>3. \A o : AnswersKept(o)
  <2>1. CASE HubStops
    BY <2>1, IdleKeepsAnswers DEF HubStops, convVars
  <2>2. CASE HubStopsInDeletion
    BY <2>2, CutDeletionSettles, SettlingKeepsAnswers DEF HubStopsInDeletion, StreamInv, ChatInv
  <2>3. QED
    BY <2>1, <2>2
<1>4. ASSUME NEW s \in Advanced
      PROVE  Fits(s)'
  <2>1. AttemptFits(s)
    BY <1>4, StreamSets DEF StreamInv, Fits
  <2>2. s \in Streams /\ thread'[s] = "closed"
        /\ (task'[s] = "dead" \/ (task'[s] = task[s] /\ ~Holding(s)))
    BY <1>1, StreamSets
  <2>3. AttemptFits(s)'
    BY <1>1, <2>1, <2>2 DEF AttemptFits, Opening, Parked, Holding, Ended
  <2>4. QED
    BY <2>3, StreamSets DEF Fits
<1>5. ASSUME NEW s \in Sends
      PROVE  Fits(s)'
  <2>1. SendFits(s) /\ AnswerFits(s)
    BY <1>5, StreamSets DEF StreamInv, Fits
  <2>2. s \in Streams /\ thread'[s] = "closed"
        /\ (task'[s] = "dead" \/ (task'[s] = task[s] /\ ~Holding(s)))
    BY <1>1, StreamSets
  <2>3. SendFits(s)'
    BY <1>1, <2>1, <2>2 DEF SendFits, Holding, Ended
  <2>4. AnswerFits(s)'
    BY <1>1, <1>3, <2>1, <2>2, AnswersFit DEF Holding, Ended
  <2>5. QED
    BY <2>3, <2>4, StreamSets DEF Fits
<1>6. QED
  BY <1>2, <1>4, <1>5 DEF StreamInv, Tasks, Streams

LEMMA HubOpensFits ==
    ASSUME StreamInv, ChatInv', HubOpens
    PROVE  StreamInv'
<1>1. /\ hub = "down" /\ hub' = "up" /\ RecoverConversations /\ convSeq' = convSeq
      /\ UNCHANGED <<task, thread, home, base, seq, outcome, verdict, slots>>
      /\ \A s \in Request : resp'[s] = IF resp[s].state = "in_progress"
                                       THEN [resp[s] EXCEPT !.state = "interrupted"] ELSE resp[s]
  BY DEF HubOpens, loopVars, RecoverResponses
<1>2. \A s \in Streams : ~Holding(s)
  BY <1>1 DEF StreamInv, DownIsQuiet
<1>3. \A o : AnswersKept(o)
  BY <1>1, RecoverySettles, SettlingKeepsAnswers DEF StreamInv, ChatInv
<1>4. Tasks'
  BY <1>1, InvTasks DEF Tasks, DownIsQuiet, BatchTogether, SlotsCount, SlotsHeld, Holding
<1>5. \A s \in Streams : /\ s \in Request /\ resp'[s].committed = resp[s].committed
                         /\ resp[s].state # "in_progress" => resp'[s] = resp[s]
                         /\ resp[s].state = "in_progress" => resp'[s].state = "interrupted"
  BY <1>1, StreamSets DEF StreamInv, ChatInv, ResponsesTypeOK
<1>6. ASSUME NEW s \in Advanced
      PROVE  Fits(s)'
  <2>1. AttemptFits(s) /\ s \in Streams
    BY <1>6, StreamSets DEF StreamInv, Fits
  <2>2. AttemptFits(s)'
    BY <1>1, <1>2, <1>5, <2>1 DEF AttemptFits, Opening, Parked, Holding, Ended, NoResponse
  <2>3. QED
    BY <2>2, StreamSets DEF Fits
<1>7. ASSUME NEW s \in Sends
      PROVE  Fits(s)'
  <2>1. SendFits(s) /\ AnswerFits(s) /\ s \in Streams
    BY <1>7, StreamSets DEF StreamInv, Fits
  <2>2. SendFits(s)'
    BY <1>1, <1>2, <1>5, <2>1 DEF SendFits, Holding, Ended
  <2>3. AnswerFits(s)'
    BY <1>1, <1>3, <1>5, <2>1, AnswersFit
  <2>4. QED
    BY <2>2, <2>3, StreamSets DEF Fits
<1>8. QED
  BY <1>4, <1>6, <1>7 DEF StreamInv, Tasks, Streams

-----------------------------------------------------------------------------
(* The specification keeps it                                               *)

LEMMA StreamStep == StreamInv /\ [Next]_vars => StreamInv'
<1> SUFFICES ASSUME StreamInv, [Next]_vars
             PROVE  StreamInv'
  OBVIOUS
<1>1. ChatInv'
  BY NextKeeps, StepKeepsInv DEF StreamInv
<1>2. CASE UNCHANGED vars
  <2>1. /\ UNCHANGED <<turns, resp, convSeq, hub, task, thread, home, base, seq, outcome, verdict, slots>>
    BY <1>2 DEF vars, convVars, respVars, loopVars
  <2>2. \A s \in Streams : Still(s) /\ AnswersKept(s)
    BY <2>1, IdleKeepsAnswers DEF Still
  <2>3. \A s \in Streams : Fits(s)'
    BY <1>1, <2>1, <2>2, InvTasks, MarksStay, StillFits DEF ChatInv
  <2>4. QED
    BY <1>1, <2>1, <2>3, InvTasks, TasksStay DEF StreamInv, Tasks
<1>3. CASE HubOpens
  BY <1>1, <1>3, HubOpensFits
<1>4. CASE hub = "up" /\ (HubStops \/ HubStopsInDeletion)
  BY <1>1, <1>4, HubStopsFits
<1>5. CASE hub = "up" /\ (ClientStep \/ RetentionStep)
  <2>1. hub' = "up"
    BY <1>5 DEF ClientStep, RetentionStep
  <2>2. QED
    BY <1>1, <1>5, <2>1, ClientFits
<1>6. CASE /\ hub = "up" /\ UNCHANGED <<bound, hub, stops>>
           /\ \/ \E s \in Streams : OpenStep(s) \/ ThreadStep(s) \/ LeaveStep(s) \/ LoopStep(s)
              \/ DispatchStep \/ BranchesStart \/ LeaveAtAnnounce
  <2>1. hub = "up" /\ hub' = "up"
    BY <1>6
  <2>2. ASSUME NEW s \in Streams, OpenStep(s)
        PROVE  StreamInv'
    BY <1>1, <2>1, <2>2, SendReadsFits, RunForksFits DEF OpenStep
  <2>3. ASSUME NEW s \in Streams, ThreadStep(s)
        PROVE  StreamInv'
    BY <1>1, <2>1, <2>3, ThreadFits
  <2>4. ASSUME NEW s \in Streams, LeaveStep(s)
        PROVE  StreamInv'
    BY <1>1, <2>1, <2>4, BodyNeverStartsFits, ClientLeavesFits DEF LeaveStep
  <2>5. ASSUME NEW s \in Streams, LoopStep(s)
        PROVE  StreamInv'
    BY <1>1, <2>1, <2>5, SendWritesFits, BodyStartsFits, YieldsDeltaFits, PersistAnswerFits,
       PersistFailsFits, CommitAnswerFits, FinishAttemptFits, SettleResponseFits, SettleTurnFits DEF LoopStep
  <2>6. ASSUME DispatchStep
        PROVE  StreamInv'
    BY <1>1, <2>1, <2>6, DispatchStartsFits, DispatchForksFits, DispatchForkFailsFits DEF DispatchStep
  <2>7. ASSUME BranchesStart \/ LeaveAtAnnounce
        PROVE  StreamInv'
    BY <1>1, <2>1, <2>7, AnnouncedFits
  <2>8. QED
    BY <1>6, <2>2, <2>3, <2>4, <2>5, <2>6, <2>7
<1>7. QED
  BY <1>2, <1>3, <1>4, <1>5, <1>6 DEF Next

LEMMA StreamStart == Init => StreamInv
<1> SUFFICES ASSUME Init
             PROVE  StreamInv
  OBVIOUS
<1>1. ChatInv
  BY InitEstablishes
<1>2. /\ \A s \in Streams : /\ task[s] \in Parked /\ thread[s] = "none" /\ seq[s] = 0 /\ resp[s] = NoResponse
                            /\ home[s] \in Conv /\ ~Holding(s)
      /\ \A c \in Conv : convSeq[c] = 0
      /\ \A s : Answers(s) = {}
      /\ slots = [r \in Router |-> 0] /\ hub = "up"
  BY <1>1, StreamSets DEF Init, ConversationsInit, ResponsesInit, Parked, Holding, Ended, Answers, ChatInv, LoopInv
<1>3. Branches \subseteq Streams /\ Sends \subseteq Streams /\ Runs \subseteq Streams /\ Advanced \subseteq Streams
  BY StreamSets
<1>4. BatchTogether
  BY <1>2, <1>3 DEF BatchTogether, Parked
<1>5. {s \in Sends : Holding(s)} = {} /\ {s \in Runs : Holding(s)} = {} /\ ~\E b \in Branches : Holding(b)
  BY <1>2, <1>3
<1>6. SlotsCount
  BY <1>2, <1>5, FS_EmptySet DEF SlotsCount, SlotsHeld, Router
<1>7. ASSUME NEW s \in Streams
      PROVE  Fits(s)
  <2>1. resp[s].state = "absent" /\ resp[s].committed = 0 /\ convSeq[home[s]] = 0
    BY <1>2 DEF NoResponse
  <2>2. AttemptFits(s)
    BY <1>2, <2>1 DEF AttemptFits, Parked
  <2>3. SendFits(s) /\ AnswerFits(s)
    BY <1>2, <2>1 DEF SendFits, AnswerFits, Parked
  <2>4. QED
    BY <2>2, <2>3 DEF Fits
<1>8. QED
  BY <1>1, <1>2, <1>4, <1>6, <1>7 DEF StreamInv, DownIsQuiet

\* What every reachable state says of each stream: how far it is, what it has
\* committed, and what it has answered.
THEOREM StreamInvariant == Spec => []StreamInv
BY StreamStart, StreamStep, PTL DEF Spec

\* Each concurrency counter is the number of streams at work and of streams whose body
\* never started, whatever was refused, abandoned or stopped: every other end gives its
\* slot back, once (_acquire_stream_slot, _release_stream_slot).
THEOREM SlotsCountStreams == Spec => []SlotsTruthful
<1>1. ASSUME NEW S \in {Sends, Runs}, IsFiniteSet({s \in S : Holding(s)})
      PROVE  Cardinality({s \in S : Holding(s)}) =
                 Cardinality({s \in S : AtWork(s)}) + Cardinality({s \in S : Lost(s)})
  <2>1. PICK H, A, L : H = {s \in S : Holding(s)} /\ A = {s \in S : AtWork(s)} /\ L = {s \in S : Lost(s)}
    OBVIOUS
  <2>2. H = A \cup L /\ A \cap L = {} /\ A \in SUBSET H /\ L \in SUBSET H
    BY <2>1 DEF AtWork, Lost, Holding, Ended
  <2>3. IsFiniteSet(A) /\ IsFiniteSet(L)
    BY <1>1, <2>1, <2>2, FS_Subset
  <2>4. /\ Cardinality(A \cup L) = Cardinality(A) + Cardinality(L) - Cardinality(A \cap L)
        /\ Cardinality(A) \in Nat /\ Cardinality(L) \in Nat /\ Cardinality(A \cap L) = 0
    BY <2>2, <2>3, FS_Union, FS_CardinalityType, FS_EmptySet
  <2>5. Cardinality(H) = Cardinality(A) + Cardinality(L)
    <3>1. Cardinality(H) = Cardinality(A \cup L)
      BY <2>2
    <3>2. QED
      BY <3>1, <2>4
  <2>6. QED
    BY <2>1, <2>5
<1>2. StreamInv => SlotsTruthful
  <2>1. SUFFICES ASSUME StreamInv
                 PROVE  SlotsTruthful
    OBVIOUS
  <2>2. SlotsCount
    BY <2>1 DEF StreamInv
  <2>3. \A b \in Branches : Holding(b) <=> AtWork(b) \/ Lost(b)
    BY DEF AtWork, Lost, Holding, Ended
  <2>4. QED
    BY <1>1, <2>2, <2>3 DEF SlotsCount, SlotsHeld, SlotsTruthful
<1>3. QED
  BY <1>2, StreamInvariant, PTL

\* No frame of a connected stream is refused for its sequence number, however many
\* streams of the conversation draw numbers and commit them (sequence_events).
THEOREM FramesStayFresh == Spec => []FramesAreFresh
<1>1. ASSUME StreamInv
      PROVE  FramesAreFresh
  <2>1. SUFFICES ASSUME NEW s \in Streams, task[s] = "pulling",
                        \/ thread[s] \in {"drawnDelta", "drawnTerminal"}
                        \/ s \in Sends /\ thread[s] \in {"gotDelta", "gotTerminal"}
                 PROVE  MayCommit(s, seq[s])
    BY DEF FramesAreFresh
  <2>2. seq[s] \in Nat /\ resp[s].committed \in Nat
    BY <1>1, StreamSets DEF StreamInv, ChatInv, LoopInv, ResponsesTypeOK
  <2>3. CASE s \in Advanced
    BY <1>1, <2>1, <2>2, <2>3, StreamSets DEF StreamInv, Fits, AttemptFits, MayCommit
  <2>4. CASE s \in Sends
    BY <1>1, <2>1, <2>2, <2>4 DEF StreamInv, Fits, SendFits, MayCommit
  <2>5. QED
    BY <2>3, <2>4 DEF Streams
<1>2. QED
  BY <1>1, StreamInvariant, PTL

\* A send is reported completed only with its one complete answer stored, and never
\* after its client left before the terminal (_persist_terminal, _partial_settlement).
THEOREM CompletedIsDelivered == Spec => []CompletedMeansDelivered
<1>1. ASSUME StreamInv, NEW s \in Sends
      PROVE  /\ Cardinality(Answers(s)) <= 1
             /\ resp[s].state = "completed" =>
                   \E t \in Answers(s) : turns[t].status = "complete" /\ turns[t].parent = base[s]
             /\ task[s] = "left" =>
                   /\ resp[s].state \notin {"in_progress", "completed"}
                   /\ \A t \in Answers(s) : turns[t].status # "complete"
  <2>1. SendFits(s) /\ AnswerFits(s)
    BY <1>1, StreamSets DEF StreamInv, Fits
  <2>2. Cardinality(Answers(s)) <= 1
    <3>1. CASE Answers(s) = {}
      BY <3>1, FS_EmptySet
    <3>2. CASE Answers(s) # {}
      <4>1. PICK t : t \in Answers(s)
        BY <3>2
      <4>2. Answers(s) = {t}
        BY <2>1, <4>1 DEF AnswerFits
      <4>3. QED
        BY <4>2, FS_Singleton
    <3>3. QED
      BY <3>1, <3>2
  <2>3. QED
    BY <2>1, <2>2 DEF SendFits, AnswerFits
<1>2. StreamInv => CompletedMeansDelivered
  BY <1>1 DEF CompletedMeansDelivered, CompletedIsPersisted, LeftSendsNeverComplete
<1>3. QED
  BY <1>2, StreamInvariant, PTL

-----------------------------------------------------------------------------
(* The limits                                                               *)

SlotsMove ==
    \/ slots' = slots
    \/ \E r \in Router : Acquire(r) \/ Release(r)
    \/ slots' = [r \in Router |-> 0]

LEMMA SlotsStep == [Next]_vars => SlotsMove
<1> SUFFICES ASSUME [Next]_vars
             PROVE  SlotsMove
  OBVIOUS
<1>1. \A s : RouterOf(s) \in Router
  BY DEF RouterOf, Router
<1>2. "send" \in Router /\ "run" \in Router /\ "batch" \in Router
  BY DEF Router
<1>3. \A s, how : Finish(s, how) => SlotsMove
  BY <1>1 DEF Finish, SlotsMove
<1>4. ASSUME NEW s \in Streams, OpenStep(s) \/ ThreadStep(s) \/ LeaveStep(s)
      PROVE  SlotsMove
  BY <1>2, <1>4 DEF OpenStep, ThreadStep, LeaveStep, SendReads, RunForks, ThreadEnters, ThreadBegins, ThreadReads,
     ThreadCommits, ThreadSettles, BodyNeverStarts, ClientLeaves, SlotsMove
<1>5. ASSUME NEW s \in Streams, LoopStep(s)
      PROVE  SlotsMove
  BY <1>3, <1>5 DEF LoopStep, SendWrites, BodyStarts, YieldsDelta, PersistAnswer, PersistFails, CommitAnswer,
     FinishAttempt, SettleResponse, SettleTurn, SlotsMove
<1>6. ASSUME DispatchStep \/ BranchesStart \/ LeaveAtAnnounce
      PROVE  SlotsMove
  BY <1>2, <1>6 DEF DispatchStep, DispatchStarts, DispatchForks, DispatchForkFails, BranchesStart,
     LeaveAtAnnounce, SlotsMove
<1>7. ASSUME \/ ClientStep \/ RetentionStep \/ HubStops \/ HubStopsInDeletion \/ HubOpens
             \/ UNCHANGED vars
      PROVE  SlotsMove
  BY <1>7 DEF ClientStep, RetentionStep, HubStops, HubStopsInDeletion, HubOpens, Stops, vars, loopVars, SlotsMove
<1>8. QED
  BY <1>4, <1>5, <1>6, <1>7 DEF Next

LimitsKept == \A r \in Router : slots[r] <= Limit(r)

\* The streams of a kind that run at once, behind every limit of the hub.
StreamsBounded ==
    /\ Cardinality({s \in Sends : Holding(s)}) <= SendLimit
    /\ Cardinality({s \in Runs : Holding(s)}) <= RunLimit

\* The limits do bound what runs: never more sends, or runs, hold a slot at once than
\* their router admits, also after refusals, disconnects and stops of the hub.
THEOREM ConcurrencyIsBounded == Spec => []StreamsBounded
<1>1. /\ Router = {"send", "run", "batch"}
      /\ Limit("send") = SendLimit /\ Limit("run") = RunLimit /\ Limit("batch") = BatchLimit
      /\ \A r \in Router : Limit(r) \in Nat
  BY StreamAssumption DEF Router, Limit
<1>2. Init => LimitsKept
  BY <1>1 DEF Init, LimitsKept
<1>3. ASSUME StreamInv, LimitsKept, [Next]_vars
      PROVE  LimitsKept'
  <2>1. slots \in [Router -> Nat]
    BY <1>3 DEF StreamInv, SlotsCount
  <2>2. SlotsMove
    BY <1>3, SlotsStep
  <2>3. CASE slots' = slots \/ slots' = [r \in Router |-> 0]
    BY <1>1, <1>3, <2>3 DEF LimitsKept
  <2>4. ASSUME NEW r \in Router, Acquire(r) \/ Release(r)
        PROVE  LimitsKept'
    <3>1. \A q \in Router : \/ slots'[q] <= slots[q]
                            \/ q = r /\ slots[q] < Limit(q) /\ slots'[q] = slots[q] + 1
      BY <2>1, <2>4 DEF Acquire, Release
    <3>2. \A q \in Router : slots[q] \in Nat /\ slots'[q] \in Int /\ Limit(q) \in Nat /\ slots[q] <= Limit(q)
      BY <1>1, <1>3, <2>1, <2>4 DEF Acquire, Release, LimitsKept
    <3>3. \A q \in Router : slots'[q] <= Limit(q)
      BY <3>1, <3>2
    <3>4. QED
      BY <3>3, <1>1 DEF LimitsKept, Limit
  <2>5. QED
    BY <2>2, <2>3, <2>4 DEF SlotsMove
<1>4. ASSUME StreamInv, LimitsKept
      PROVE  StreamsBounded
  <2>1. slots["send"] <= SendLimit /\ slots["run"] <= RunLimit
    BY <1>1, <1>4 DEF LimitsKept
  <2>2. QED
    BY <1>4, <2>1 DEF StreamsBounded, StreamInv, SlotsCount, SlotsHeld
<1>5. QED
  BY <1>2, <1>3, <1>4, StreamInvariant, PTL DEF Spec

-----------------------------------------------------------------------------
(* Transfers                                                                *)

TurnSpec == [id : Nat \ {0}, parent : Nat, idx : Nat, role : Role, status : TurnStatus,
             omitted : BOOLEAN, content : BOOLEAN]
Import == [into : Copies, turns : Seq(TurnSpec), next : Nat, ids : Seq(Nat), clean : BOOLEAN]

\* What an artifact keeps however it is edited: no id twice, and indexes no higher than
\* the rows of the store allow.
ArtifactFits(specs) ==
    /\ specs \in Seq(TurnSpec)
    /\ \A k \in DOMAIN specs : specs[k].idx <= Len(turns)
    /\ \A j, k \in DOMAIN specs : specs[j].id = specs[k].id => j = k

\* What it is when nobody edited it: parents first, one root, siblings apart.
InOrder(specs) ==
    \A k \in DOMAIN specs :
        /\ specs[k].parent # Root => \E m \in 1 .. k - 1 : specs[m].id = specs[k].parent
        /\ \A j \in DOMAIN specs :
              j # k /\ specs[j].parent = specs[k].parent =>
                  specs[k].parent # Root /\ specs[j].idx # specs[k].idx

\* The row of the k-th turn of an import.
Replayed(i, k) ==
    LET spec == i.turns[k]
        t == i.ids[k]
    IN  /\ t \in 1 .. Len(turns)
        /\ turns[t].conv = i.into /\ turns[t].idx = spec.idx /\ turns[t].role = spec.role
        /\ turns[t].status # "streaming"
        /\ turns[t].parent = Root <=> spec.parent = Root
        /\ spec.parent # Root =>
              \E m \in 1 .. k - 1 : i.turns[m].id = spec.parent /\ turns[t].parent = i.ids[m]
        /\ spec.omitted => t \in bare

\* An import has replayed the turns before the next one, each into a later row.
ImportFits(i) ==
    /\ i \in Import
    /\ ArtifactFits(i.turns) /\ PlanAccepts(i.turns)
    /\ i.clean => InOrder(i.turns)
    /\ i.next <= Len(i.turns) + 1 /\ Len(i.ids) = i.next - 1
    /\ \A j, k \in DOMAIN i.ids : j < k => i.ids[j] < i.ids[k]
    /\ \A k \in DOMAIN i.ids : Replayed(i, k)

\* No deletion is left pending: the transfers see whole deletions only.
TransferInv ==
    /\ ConvInv
    /\ \A c \in Conv : conv[c] \notin {"pendingTombstone", "pendingErase"}
    /\ edited \in BOOLEAN
    /\ ArtifactFits(artifact) /\ (~edited => InOrder(artifact))
    /\ \A i \in importing : ImportFits(i) /\ conv[i.into] # "absent"
    /\ \A i \in imported : ImportFits(i) /\ i.next > Len(i.turns)
    /\ \A c \in refused : c \in Conv /\ conv[c] \in {"deleted", "erased"}

\* The rows and the fates a step of the store leaves as they are.
RowsKept ==
    /\ Len(turns) <= Len(turns') /\ Len(turns) \in Nat /\ Len(turns') \in Nat
    /\ bare \subseteq bare'
    /\ \A t \in 1 .. Len(turns) :
          /\ turns'[t].conv = turns[t].conv /\ turns'[t].parent = turns[t].parent
          /\ turns'[t].idx = turns[t].idx /\ turns'[t].role = turns[t].role
          /\ turns[t].status # "streaming" => turns'[t].status # "streaming"

FatesKept ==
    \A c \in Conv :
        /\ conv'[c] \notin {"pendingTombstone", "pendingErase"}
        /\ conv[c] # "absent" => conv'[c] # "absent"
        /\ conv[c] \in {"deleted", "erased"} => conv'[c] = conv[c]

LEMMA StoreStepKeepsRows ==
    ASSUME ConvInv, StoreStep, bare \subseteq bare'
    PROVE  RowsKept
<1>1. Len(turns) \in Nat /\ DOMAIN turns = 1 .. Len(turns)
  BY DEF ConvInv
<1>2. CASE RowsSettle
  <2>1. \A t \in 1 .. Len(turns) : turns[t].status # "streaming" => turns'[t].status # "streaming"
    BY <1>2 DEF RowsSettle
  <2>2. QED
    BY <1>1, <1>2, <2>1 DEF RowsSettle, RowsKept
<1>3. CASE RowAppended
  <2>1. PICK c \in Conv, p \in Nat, i \in Nat, role \in Role, status \in TurnStatus, by \in Writer :
           AppendTurn(c, p, i, role, status, by)
    BY <1>3 DEF RowAppended
  <2>2. PICK row : row = NewTurn(c, p, i, role, status, by)
    OBVIOUS
  <2>3. turns' = Append(turns, row) /\ row \in Row
    BY <2>1, <2>2 DEF AppendTurn, NewTurn, Row
  <2>4. /\ Len(turns') = Len(turns) + 1
        /\ \A t \in 1 .. Len(turns) : turns'[t] = turns[t]
    BY <2>3 DEF ConvInv
  <2>5. QED
    BY <1>1, <2>4 DEF RowsKept
<1>4. QED
  BY <1>2, <1>3 DEF StoreStep

LEMMA ArtifactKept ==
    ASSUME RowsKept, NEW specs, ArtifactFits(specs)
    PROVE  ArtifactFits(specs)'
<1>1. ASSUME NEW k \in DOMAIN specs
      PROVE  specs[k].idx <= Len(turns')
  <2>1. specs[k] \in TurnSpec /\ specs[k].idx <= Len(turns)
    BY DEF ArtifactFits
  <2>2. QED
    BY <2>1 DEF RowsKept, TurnSpec
<1>2. QED
  BY <1>1 DEF ArtifactFits

LEMMA ReplayedKept ==
    ASSUME RowsKept, NEW i, NEW k, Replayed(i, k)
    PROVE  Replayed(i, k)'
BY DEF RowsKept, Replayed

LEMMA ImportKept ==
    ASSUME RowsKept, NEW i, ImportFits(i)
    PROVE  ImportFits(i)'
<1>1. ArtifactFits(i.turns)'
  BY ArtifactKept DEF ImportFits
<1>2. \A k \in DOMAIN i.ids : Replayed(i, k)'
  BY ReplayedKept DEF ImportFits
<1>3. QED
  BY <1>1, <1>2 DEF ImportFits, PlanAccepts, InOrder

\* A step of the store, with what it does to the imports and the refusals.
LEMMA StoreStepKeepsTransfers ==
    ASSUME TransferInv, StoreStep, FatesKept, bare \subseteq bare',
           UNCHANGED <<artifact, edited>>,
           \A i \in importing' : i \in importing \/ (ImportFits(i)' /\ conv'[i.into] # "absent"),
           \A i \in imported' : i \in imported \/ (ImportFits(i)' /\ i.next > Len(i.turns)),
           \A c \in refused' : c \in refused \/ (c \in Conv /\ conv'[c] \in {"deleted", "erased"})
    PROVE  TransferInv'
<1>1. RowsKept /\ ConvInv'
  BY StoreStepKeepsRows, StoreStepKeepsInv DEF TransferInv
<1>2. ArtifactFits(artifact)' /\ (~edited' => InOrder(artifact'))
  BY <1>1, ArtifactKept DEF TransferInv
<1>3. ASSUME NEW i \in importing'
      PROVE  ImportFits(i)' /\ conv'[i.into] # "absent"
  <2>1. CASE i \in importing
    <3>1. ImportFits(i) /\ conv[i.into] # "absent" /\ i.into \in Conv
      BY <2>1, TransfersAssumption DEF TransferInv, ImportFits, Import
    <3>2. QED
      BY <1>1, <3>1, ImportKept DEF FatesKept
  <2>2. QED
    BY <2>1
<1>4. ASSUME NEW i \in imported'
      PROVE  ImportFits(i)' /\ i.next > Len(i.turns)
  <2>1. CASE i \in imported
    BY <1>1, <2>1, ImportKept DEF TransferInv
  <2>2. QED
    BY <2>1
<1>5. \A c \in refused' : c \in Conv /\ conv'[c] \in {"deleted", "erased"}
  BY DEF TransferInv, FatesKept
<1>6. QED
  BY <1>1, <1>2, <1>3, <1>4, <1>5 DEF TransferInv, FatesKept

LEMMA CopiesAreConv == Copies \subseteq Conv /\ Original \subseteq Conv
BY TransfersAssumption

LEMMA ErasureKeepsFates ==
    ASSUME TransferInv, NEW c \in Conv, NEW mode \in {"tombstone", "erase"},
           DeleteConversation(c, mode)
    PROVE  FatesKept /\ conv'[c] \in {"deleted", "erased"}
BY DEF TransferInv, ConvInv, ConvStatus, DeleteConversation, CompleteDeletion, Listable, Pending,
       Completed, FatesKept

LEMMA LifeKeepsFates ==
    ASSUME TransferInv, NEW c \in Conv,
           \/ CreateConversation(c) \/ ArchiveConversation(c) \/ EnforceRetention({c})
           \/ RecoverConversations \/ UNCHANGED conv
    PROVE  FatesKept
BY DEF TransferInv, ConvInv, ConvStatus, CreateConversation, ArchiveConversation, EnforceRetention,
       RecoverConversations, CompleteDeletion, Listable, Completed, FatesKept

LEMMA BrowserKeepsTransfers ==
    ASSUME TransferInv, NEW c \in Conv, BrowserPosts(c) \/ BrowserMoves(c)
    PROVE  TransferInv'
<1>0. ConvInv
  BY DEF TransferInv
<1>1. CASE BrowserPosts(c)
  <2>1. PICK p \in OwnTurns(c) \cup {Root}, post \in Post :
           /\ \E i \in 0 .. 1 : AppendTurn(c, p, i, "user", post.status, Client)
           /\ bare' = IF post.bare THEN bare \cup {Len(turns')} ELSE bare
    BY <1>1 DEF BrowserPosts
  <2>2. PICK i \in 0 .. 1 : AppendTurn(c, p, i, "user", post.status, Client)
    BY <2>1
  <2>3. post.status \in TurnStatus
    BY TransfersAssumption
  <2>4. StoreStep
    <3>1. i <= Len(turns) + 1
      BY <1>0 DEF ConvInv
    <3>2. QED
      BY <1>0, <2>2, <2>3, <3>1, AppendIsStep, ConversationAssumption DEF Role
  <2>5. bare \subseteq bare' /\ UNCHANGED <<artifact, edited, importVars>> /\ conv' = conv
    BY <1>1, <2>1, <2>2 DEF BrowserPosts, AppendTurn
  <2>6. FatesKept
    BY <2>5, LifeKeepsFates
  <2>7. QED
    BY <2>4, <2>5, <2>6, StoreStepKeepsTransfers DEF importVars, TransferInv
<1>2. CASE BrowserMoves(c)
  <2>1. UNCHANGED <<bare, artifact, edited, importVars>>
    BY <1>2 DEF BrowserMoves
  <2>2. StoreStep /\ FatesKept
    <3>1. CASE ArchiveConversation(c)
      BY <1>0, <3>1, ConversationSettles, LifeKeepsFates DEF StoreStep
    <3>2. ASSUME NEW mode \in {"tombstone", "erase"}, DeleteConversation(c, mode)
          PROVE  StoreStep /\ FatesKept
      BY <1>0, <3>2, DeleteSettles, ErasureKeepsFates DEF StoreStep
    <3>3. QED
      BY <1>2, <3>1, <3>2 DEF BrowserMoves
  <2>3. QED
    BY <2>1, <2>2, StoreStepKeepsTransfers DEF importVars, TransferInv
<1>3. QED
  BY <1>1, <1>2

LEMMA SourceKeepsTransfers ==
    ASSUME TransferInv, NEW c \in Conv, SourceMoves(c)
    PROVE  TransferInv'
<1>0. ConvInv
  BY DEF TransferInv
<1>1. UNCHANGED <<bare, artifact, edited, importVars>>
  BY DEF SourceMoves
<1>2. StoreStep /\ FatesKept
  <2>1. CASE CreateConversation(c)
    BY <1>0, <2>1, ConversationSettles, LifeKeepsFates DEF StoreStep
  <2>2. CASE EnforceRetention({c})
    BY <1>0, <2>2, RetentionSettles, LifeKeepsFates DEF StoreStep
  <2>3. QED
    BY <2>1, <2>2 DEF SourceMoves
<1>3. QED
  BY <1>1, <1>2, StoreStepKeepsTransfers DEF importVars, TransferInv

LEMMA StopKeepsTransfers == TransferInv /\ TransferStops => TransferInv'
<1> SUFFICES ASSUME TransferInv, TransferStops
             PROVE  TransferInv'
  OBVIOUS
<1>0. ConvInv
  BY DEF TransferInv
<1>1. RecoverConversations /\ importing' = {} /\ UNCHANGED <<bare, artifact, edited, imported, refused>>
  BY DEF TransferStops
<1>2. FatesKept
  BY <1>1 DEF TransferInv, ConvInv, ConvStatus, RecoverConversations, Completed, FatesKept
<1>3. QED
  BY <1>0, <1>1, <1>2, RecoverySettles, StoreStepKeepsTransfers DEF StoreStep, TransferInv

\* A step that only writes the artifact.
LEMMA ArtifactKeepsTransfers ==
    ASSUME TransferInv, UNCHANGED <<convVars, bare, importVars>>, edited' \in BOOLEAN,
           ArtifactFits(artifact)', ~edited' => InOrder(artifact')
    PROVE  TransferInv'
<1>1. UNCHANGED <<conv, turns, bare, importing, imported, refused>>
  BY DEF convVars, importVars
<1>2. StoreStep
  BY <1>1, IdleIsStep DEF TransferInv, convVars
<1>3. RowsKept /\ ConvInv'
  BY <1>1, <1>2, StoreStepKeepsRows, StoreStepKeepsInv DEF TransferInv
<1>4. \A i \in importing \cup imported : ImportFits(i)'
  BY <1>3, ImportKept DEF TransferInv
<1>5. QED
  BY <1>1, <1>3, <1>4 DEF TransferInv

LEMMA ExportKeepsTransfers ==
    ASSUME TransferInv, NEW c \in Conv, Export(c)
    PROVE  TransferInv'
<1>1. ConvInv
  BY DEF TransferInv
<1>2. Len(turns) \in Nat /\ DOMAIN turns = 1 .. Len(turns) /\ \A t \in DOMAIN turns : turns[t] \in Row
  BY <1>1 DEF ConvInv
<1>3. OwnTurns(c) \subseteq 1 .. Len(turns) /\ \A t \in OwnTurns(c) : turns[t].conv = c
  BY <1>2 DEF OwnTurns
<1>4. PICK n : n = Cardinality(OwnTurns(c)) /\ n \in Nat
  <2>1. IsFiniteSet(1 .. Len(turns))
    BY <1>2, FS_Interval
  <2>2. QED
    BY <1>3, <2>1, FS_Subset, FS_CardinalityType
<1>5. PICK order \in LineageOrders(c) : artifact' = [k \in DOMAIN order |-> Exported(order[k])]
  BY DEF Export
<1>6. /\ order \in [1 .. n -> OwnTurns(c)] /\ DOMAIN order = 1 .. n
      /\ \A k \in 1 .. n : \E m \in 0 .. k - 1 : ParentAt(order, k, m)
      /\ \A k \in 1 .. n : \A j \in 1 .. k - 1 : order[j] # order[k]
  BY <1>4, <1>5 DEF LineageOrders
<1>7. \A j, k \in 1 .. n : order[j] = order[k] => j = k
  BY <1>4, <1>6
<1>8. ASSUME NEW k \in 1 .. n
      PROVE  /\ artifact'[k] \in TurnSpec
             /\ artifact'[k].id = order[k] /\ artifact'[k].parent = turns[order[k]].parent
             /\ artifact'[k].idx = turns[order[k]].idx /\ artifact'[k].idx <= Len(turns)
  <2>1. PICK t : t = order[k]
    OBVIOUS
  <2>2. t \in 1 .. Len(turns) /\ turns[t] \in Row /\ turns[t].idx <= t
    BY <1>1, <1>2, <1>3, <1>6, <2>1 DEF ConvInv
  <2>3. artifact'[k] = Exported(t)
    BY <1>5, <1>6, <2>1
  <2>4. HasContent(t) \in BOOLEAN
    BY <2>2 DEF HasContent, Row
  <2>5. QED
    BY <1>2, <2>1, <2>2, <2>3, <2>4 DEF Exported, TurnSpec, Row
<1>9. artifact' \in Seq(TurnSpec) /\ DOMAIN artifact' = 1 .. n
  <2>1. artifact' \in [1 .. n -> TurnSpec]
    BY <1>5, <1>6, <1>8
  <2>2. QED
    BY <1>4, <2>1, SeqOfFunction
<1>10. ArtifactFits(artifact)'
  <2>1. turns' = turns
    BY DEF Export, convVars
  <2>2. QED
    BY <1>7, <1>8, <1>9, <2>1 DEF ArtifactFits
<1>11. InOrder(artifact')
  <2>1. ASSUME NEW k \in 1 .. n, artifact'[k].parent # Root
        PROVE  \E m \in 1 .. k - 1 : artifact'[m].id = artifact'[k].parent
    <3>1. PICK m \in 0 .. k - 1 : ParentAt(order, k, m)
      BY <1>6
    <3>2. m # 0 /\ order[m] = turns[order[k]].parent
      BY <1>8, <2>1, <3>1 DEF ParentAt
    <3>3. m \in 1 .. n
      BY <1>4, <3>1, <3>2
    <3>4. QED
      BY <1>8, <3>1, <3>2, <3>3
  <2>2. ASSUME NEW k \in 1 .. n, NEW j \in 1 .. n, j # k, artifact'[j].parent = artifact'[k].parent
        PROVE  artifact'[k].parent # Root /\ artifact'[j].idx # artifact'[k].idx
    <3>1. PICK t, u : t = order[k] /\ u = order[j]
      OBVIOUS
    <3>2. t \in DOMAIN turns /\ u \in DOMAIN turns /\ t # u /\ turns[u].conv = turns[t].conv
      BY <1>2, <1>3, <1>6, <1>7, <2>2, <3>1
    <3>3. turns[u].parent = turns[t].parent
      BY <1>8, <2>2, <3>1
    <3>4. turns[t].parent # Root /\ turns[u].idx # turns[t].idx
      BY <1>1, <3>2, <3>3 DEF ConvInv, HistoryReadable
    <3>5. QED
      BY <1>8, <3>1, <3>4
  <2>3. QED
    BY <1>9, <2>1, <2>2 DEF InOrder
<1>12. QED
  BY <1>10, <1>11, ArtifactKeepsTransfers DEF Export

LEMMA EditKeepsTransfers == TransferInv /\ EditArtifact => TransferInv'
<1> SUFFICES ASSUME TransferInv, EditArtifact
             PROVE  TransferInv'
  OBVIOUS
<1>1. /\ artifact \in Seq(TurnSpec) /\ Len(artifact) \in Nat /\ DOMAIN artifact = 1 .. Len(artifact)
      /\ \A k \in DOMAIN artifact : artifact[k] \in TurnSpec /\ artifact[k].idx <= Len(turns)
      /\ \A j, k \in DOMAIN artifact : artifact[j].id = artifact[k].id => j = k
      /\ Len(turns) \in Nat
  BY DEF TransferInv, ArtifactFits, ConvInv
<1>2. PICK k \in DOMAIN artifact :
          \/ artifact' = [artifact EXCEPT ![k].content = TRUE]
          \/ artifact' = SubSeq(artifact, 1, k - 1) \o SubSeq(artifact, k + 1, Len(artifact))
          \/ artifact[k].idx > 0 /\ artifact' = [artifact EXCEPT ![k].idx = @ - 1]
  BY DEF EditArtifact
<1>3. turns' = turns /\ edited' = TRUE /\ UNCHANGED <<convVars, bare, importVars>>
  BY DEF EditArtifact, convVars
<1>4. ASSUME NEW new \in TurnSpec, new.id = artifact[k].id, new.idx <= Len(turns),
             artifact' = [artifact EXCEPT ![k] = new]
      PROVE  ArtifactFits(artifact)'
  <2>1. artifact' \in Seq(TurnSpec) /\ DOMAIN artifact' = DOMAIN artifact
    BY <1>1, <1>4
  <2>2. \A j \in DOMAIN artifact : artifact'[j].id = artifact[j].id /\ artifact'[j].idx <= Len(turns)
    BY <1>1, <1>4
  <2>3. QED
    BY <1>1, <1>3, <2>1, <2>2 DEF ArtifactFits
<1>5. CASE artifact' = [artifact EXCEPT ![k].content = TRUE]
  <2>1. PICK new : new = [artifact[k] EXCEPT !.content = TRUE]
    OBVIOUS
  <2>2. new \in TurnSpec /\ new.id = artifact[k].id /\ new.idx <= Len(turns)
    BY <1>1, <2>1 DEF TurnSpec
  <2>3. artifact' = [artifact EXCEPT ![k] = new]
    BY <1>5, <2>1
  <2>4. QED
    BY <1>3, <1>4, <2>2, <2>3, ArtifactKeepsTransfers
<1>6. CASE artifact[k].idx > 0 /\ artifact' = [artifact EXCEPT ![k].idx = @ - 1]
  <2>0. artifact[k] \in TurnSpec /\ artifact[k].idx \in Nat
    BY <1>1 DEF TurnSpec
  <2>1. PICK n : n = artifact[k].idx - 1
    OBVIOUS
  <2>2. n \in Nat /\ n <= Len(turns)
    BY <1>1, <1>6, <2>0, <2>1
  <2>3. PICK new : new = [artifact[k] EXCEPT !.idx = n]
    OBVIOUS
  <2>5. new \in TurnSpec /\ new.id = artifact[k].id /\ new.idx <= Len(turns)
    BY <2>0, <2>2, <2>3 DEF TurnSpec
  <2>6. artifact' = [artifact EXCEPT ![k] = new]
    BY <1>6, <2>1, <2>3
  <2>4. QED
    BY <1>3, <1>4, <2>5, <2>6, ArtifactKeepsTransfers
<1>7. CASE artifact' = SubSeq(artifact, 1, k - 1) \o SubSeq(artifact, k + 1, Len(artifact))
  <2> DEFINE at(j) == IF j < k THEN j ELSE j + 1
  <2>1. /\ artifact' \in Seq(TurnSpec) /\ Len(artifact') = Len(artifact) - 1
        /\ \A j \in 1 .. Len(artifact) - 1 : artifact'[j] = artifact[at(j)]
    <3>1. PICK a, b : a = SubSeq(artifact, 1, k - 1) /\ b = SubSeq(artifact, k + 1, Len(artifact))
      OBVIOUS
    <3>2. /\ a \in Seq(TurnSpec) /\ Len(a) = k - 1
          /\ \A j \in 1 .. k - 1 : a[j] = artifact[j]
      BY <1>1, <3>1, SubSeqProperties
    <3>3. /\ b \in Seq(TurnSpec) /\ Len(b) = Len(artifact) - k
          /\ \A j \in 1 .. Len(artifact) - k : b[j] = artifact[k + j]
      BY <1>1, <3>1, SubSeqProperties
    <3>4. artifact' = a \o b
      BY <1>7, <3>1
    <3>5. /\ artifact' \in Seq(TurnSpec) /\ Len(artifact') = Len(a) + Len(b)
          /\ \A j \in 1 .. Len(a) + Len(b) :
                artifact'[j] = IF j <= Len(a) THEN a[j] ELSE b[j - Len(a)]
      BY <3>2, <3>3, <3>4, ConcatProperties
    <3>6. Len(a) + Len(b) = Len(artifact) - 1
      BY <1>1, <3>2, <3>3
    <3>7. ASSUME NEW j \in 1 .. Len(artifact) - 1
          PROVE  artifact'[j] = artifact[at(j)]
      <4>1. CASE j < k
        <5>1. j \in 1 .. k - 1 /\ j <= Len(a) /\ j \in 1 .. Len(a) + Len(b)
          BY <1>1, <3>2, <3>6, <4>1
        <5>2. QED
          BY <3>2, <3>5, <4>1, <5>1
      <4>2. CASE ~(j < k)
        <5>1. PICK l : l = j - (k - 1)
          OBVIOUS
        <5>2. /\ l \in 1 .. Len(artifact) - k /\ k + l = j + 1 /\ l = j - Len(a) /\ ~(j <= Len(a))
              /\ j \in 1 .. Len(a) + Len(b)
          BY <1>1, <3>2, <3>6, <4>2, <5>1
        <5>3. artifact'[j] = b[l] /\ b[l] = artifact[k + l]
          BY <3>3, <3>5, <5>2
        <5>4. QED
          BY <4>2, <5>2, <5>3
      <4>3. QED
        BY <4>1, <4>2
    <3>8. QED
      BY <3>5, <3>6, <3>7
  <2>2. DOMAIN artifact' = 1 .. Len(artifact) - 1
    BY <1>1, <2>1
  <2>3. \A j \in DOMAIN artifact' : at(j) \in DOMAIN artifact
    BY <1>1, <2>2
  <2>4. \A i, j \in DOMAIN artifact' : at(i) = at(j) => i = j
    BY <1>1, <2>2
  <2> HIDE DEF at
  <2>5. ArtifactFits(artifact)'
    BY <1>1, <1>3, <2>1, <2>2, <2>3, <2>4 DEF ArtifactFits
  <2>6. QED
    BY <1>3, <2>5, ArtifactKeepsTransfers
<1>8. QED
  BY <1>2, <1>5, <1>6, <1>7

LEMMA ImportBeginsKeepsTransfers ==
    ASSUME TransferInv, NEW c \in Copies, ImportBegins(c)
    PROVE  TransferInv'
<1>1. ConvInv /\ c \in Conv
  BY CopiesAreConv DEF TransferInv
<1>2. CreateConversation(c) /\ PlanAccepts(artifact) /\ UNCHANGED <<bare, artifact, edited, imported, refused>>
  BY DEF ImportBegins
<1>3. StoreStep /\ FatesKept
  BY <1>1, <1>2, ConversationSettles, LifeKeepsFates DEF StoreStep
<1>4. PICK new : new = [into |-> c, turns |-> artifact, next |-> 1, ids |-> << >>, clean |-> ~edited]
  OBVIOUS
<1>5. importing' = {new}
  BY <1>4 DEF ImportBegins
<1>6. artifact \in Seq(TurnSpec) /\ Len(artifact) \in Nat
  BY DEF TransferInv, ArtifactFits
<1>7. /\ new.into = c /\ new.turns = artifact /\ new.next = 1 /\ new.ids = << >>
      /\ new.clean = ~edited /\ new.clean \in BOOLEAN
  BY <1>4 DEF TransferInv
<1>8. new \in Import
  BY <1>4, <1>6, <1>7 DEF Import
<1>9. ArtifactFits(artifact)'
  BY <1>2, <1>3, StoreStepKeepsRows, ArtifactKept DEF TransferInv
<1>10. ImportFits(new)'
  <2>1. /\ ArtifactFits(new.turns)' /\ PlanAccepts(new.turns)'
        /\ new.clean => InOrder(new.turns)
    BY <1>2, <1>7, <1>9 DEF TransferInv, PlanAccepts
  <2>2. new.next <= Len(new.turns) + 1 /\ Len(new.ids) = new.next - 1 /\ DOMAIN new.ids = {}
    BY <1>6, <1>7
  <2>3. QED
    BY <1>8, <2>1, <2>2 DEF ImportFits, InOrder
<1>11. conv'[new.into] = "active"
  BY <1>1, <1>2, <1>7 DEF CreateConversation, ConvInv
<1>12. QED
  BY <1>2, <1>3, <1>5, <1>10, <1>11, StoreStepKeepsTransfers

LEMMA ImportEndsKeepsTransfers ==
    ASSUME TransferInv, NEW i \in importing, ImportEnds(i)
    PROVE  TransferInv'
<1>1. /\ i.next > Len(i.turns) /\ importing' = {} /\ imported' = imported \cup {i}
      /\ UNCHANGED <<convVars, bare, artifact, edited, refused>>
  BY DEF ImportEnds
<1>2. StoreStep /\ FatesKept
  BY <1>1, IdleIsStep, LifeKeepsFates, ConversationAssumption DEF TransferInv, convVars, FatesKept
<1>3. ImportFits(i)'
  BY <1>1, <1>2, StoreStepKeepsRows, ImportKept DEF TransferInv
<1>4. QED
  BY <1>1, <1>2, <1>3, StoreStepKeepsTransfers

LEMMA ImportRefusedKeepsTransfers ==
    ASSUME TransferInv, NEW i \in importing, ImportRefused(i)
    PROVE  TransferInv'
<1>1. PICK c : c = i.into
  OBVIOUS
<1>2. /\ RolledBack(c) /\ importing' = {} /\ refused' = refused \cup {c}
      /\ UNCHANGED <<bare, artifact, edited, imported>>
  BY <1>1 DEF ImportRefused
<1>3. ConvInv /\ c \in Conv /\ conv[c] # "absent"
  BY <1>1, CopiesAreConv DEF TransferInv, ImportFits, Import
<1>4. StoreStep /\ FatesKept /\ conv'[c] \in {"deleted", "erased"}
  <2>1. CASE Listable(c)
    <3>1. DeleteConversation(c, "erase")
      BY <1>2, <2>1 DEF RolledBack
    <3>2. QED
      BY <1>3, <3>1, DeleteSettles, ErasureKeepsFates DEF StoreStep
  <2>2. CASE ~Listable(c)
    <3>1. UNCHANGED convVars
      BY <1>2, <2>2 DEF RolledBack
    <3>2. conv[c] \in {"deleted", "erased"}
      BY <1>3, <2>2 DEF TransferInv, ConvInv, ConvStatus, Listable
    <3>3. QED
      BY <1>3, <3>1, <3>2, IdleIsStep DEF TransferInv, convVars, FatesKept
  <2>3. QED
    BY <2>1, <2>2
<1>5. QED
  BY <1>2, <1>3, <1>4, StoreStepKeepsTransfers

LEMMA ImportAppendsKeepsTransfers ==
    ASSUME TransferInv, NEW i \in importing, ImportAppends(i)
    PROVE  TransferInv'
<1>1. /\ ConvInv /\ ImportFits(i) /\ i \in Import /\ i.into \in Conv /\ conv[i.into] # "absent"
      /\ Len(turns) \in Nat
  BY CopiesAreConv DEF TransferInv, ImportFits, Import, ConvInv
<1>2. PICK k, spec : k = i.next /\ spec = i.turns[k]
  OBVIOUS
<1>3. /\ k \in 1 .. Len(i.turns) /\ Len(i.ids) = k - 1 /\ DOMAIN i.ids = 1 .. k - 1 /\ i.ids \in Seq(Nat)
      /\ i.turns \in Seq(TurnSpec) /\ spec \in TurnSpec /\ spec.idx <= Len(turns)
      /\ spec.omitted => ~spec.content
  <2>1. i.turns \in Seq(TurnSpec) /\ i.ids \in Seq(Nat) /\ i.next \in Nat
    BY <1>1 DEF Import
  <2>2. k <= Len(i.turns) /\ Len(i.ids) = k - 1 /\ Len(i.ids) \in Nat
    BY <1>1, <1>2, <2>1 DEF ImportAppends, ImportFits
  <2>3. k \in 1 .. Len(i.turns) /\ DOMAIN i.ids = 1 .. k - 1 /\ k \in DOMAIN i.turns
    BY <1>2, <2>1, <2>2
  <2>4. QED
    BY <1>1, <1>2, <2>1, <2>2, <2>3 DEF ImportFits, ArtifactFits, PlanAccepts
<1>4. PICK p \in Remapped(i, spec) :
         AppendTurn(i.into, p, spec.idx, spec.role, PlannedStatus(spec), Client)
  BY <1>2 DEF ImportAppends
<1>5. /\ bare' = IF spec.content THEN bare ELSE bare \cup {Len(turns')}
      /\ importing' = {[i EXCEPT !.next = @ + 1, !.ids = Append(@, Len(turns'))]}
      /\ UNCHANGED <<artifact, edited, imported, refused>>
  BY <1>2 DEF ImportAppends
<1>6. PICK status : status = PlannedStatus(spec)
  OBVIOUS
<1>7. /\ status \in TurnStatus /\ status # "streaming"
      /\ spec.idx \in Nat /\ spec.role \in Role /\ spec.parent \in Nat
  BY <1>3, <1>6 DEF PlannedStatus, TurnSpec, TurnStatus, TerminalTurnStatus
<1>8. StoreStep
  BY <1>1, <1>3, <1>4, <1>6, <1>7, AppendIsStep, ConversationAssumption
<1>9. FatesKept /\ bare \subseteq bare'
  <2>1. conv' = conv
    BY <1>4 DEF AppendTurn
  <2>2. FatesKept
    BY <1>1, <2>1, LifeKeepsFates
  <2>3. QED
    BY <1>5, <2>2
<1>10. RowsKept
  BY <1>1, <1>8, <1>9, StoreStepKeepsRows
<1>11. PICK n : n = Len(turns) + 1
  OBVIOUS
<1>12. /\ Len(turns') = n
       /\ turns'[n] = NewTurn(i.into, p, spec.idx, spec.role, status, Client)
  BY <1>1, <1>4, <1>6, <1>11 DEF AppendTurn, ConvInv
<1>13. PICK new : new = [i EXCEPT !.next = @ + 1, !.ids = Append(@, n)]
  OBVIOUS
<1>14. /\ importing' = {new} /\ new \in Import
       /\ new.into = i.into /\ new.turns = i.turns /\ new.clean = i.clean
       /\ new.next = k + 1 /\ new.ids = Append(i.ids, n)
  <2>1. k \in Nat /\ n \in Nat /\ Append(i.ids, n) \in Seq(Nat)
    BY <1>1, <1>3, <1>11
  <2>2. importing' = {new}
    BY <1>5, <1>12, <1>13
  <2>3. new = [into |-> i.into, turns |-> i.turns, next |-> i.next + 1, ids |-> Append(i.ids, n),
               clean |-> i.clean]
    BY <1>1, <1>13 DEF Import
  <2>4. i.into \in Copies /\ i.turns \in Seq(TurnSpec) /\ i.clean \in BOOLEAN
    BY <1>1 DEF Import
  <2>5. i.next = k /\ k + 1 \in Nat
    BY <1>2, <2>1
  <2>6. QED
    BY <2>1, <2>2, <2>3, <2>4, <2>5 DEF Import
<1>15. /\ Len(new.ids) = k /\ DOMAIN new.ids = 1 .. k /\ new.ids[k] = n
       /\ \A m \in 1 .. k - 1 : new.ids[m] = i.ids[m]
  BY <1>1, <1>3, <1>11, <1>14
<1>16. \A m \in 1 .. k - 1 : Replayed(i, m) /\ i.ids[m] \in 1 .. Len(turns)
  BY <1>1, <1>3 DEF ImportFits, Replayed
<1>17. \A j, m \in DOMAIN new.ids : j < m => new.ids[j] < new.ids[m]
  <2>1. \A j, m \in 1 .. k - 1 : j < m => i.ids[j] < i.ids[m]
    BY <1>1, <1>3 DEF ImportFits
  <2>2. ASSUME NEW j \in 1 .. k, NEW m \in 1 .. k, j < m
        PROVE  new.ids[j] < new.ids[m]
    <3>1. j \in 1 .. k - 1 /\ new.ids[j] = i.ids[j] /\ i.ids[j] \in 1 .. Len(turns)
      BY <1>3, <1>15, <1>16, <2>2
    <3>2. CASE m \in 1 .. k - 1
      BY <1>15, <2>1, <2>2, <3>1, <3>2
    <3>3. CASE m = k
      BY <1>1, <1>11, <1>15, <3>1, <3>3
    <3>4. QED
      BY <1>3, <3>2, <3>3
  <2>3. QED
    BY <1>15, <2>2
<1>18. ASSUME NEW m \in 1 .. k - 1
       PROVE  Replayed(new, m)'
  <2>1. Replayed(i, m)'
    BY <1>10, <1>16, ReplayedKept
  <2>2. new.ids[m] = i.ids[m] /\ \A l \in 1 .. m - 1 : new.ids[l] = i.ids[l]
    BY <1>3, <1>15
  <2>3. QED
    BY <1>14, <2>1, <2>2 DEF Replayed
<1>19. Replayed(new, k)'
  <2>1. n \in 1 .. Len(turns')
    BY <1>1, <1>11, <1>12
  <2>2. /\ turns'[n].conv = i.into /\ turns'[n].idx = spec.idx /\ turns'[n].role = spec.role
        /\ turns'[n].status # "streaming" /\ turns'[n].parent = p
    BY <1>7, <1>12 DEF NewTurn
  <2>3. /\ spec.parent = Root => p = Root
        /\ spec.parent # Root => \E m \in 1 .. k - 1 : i.turns[m].id = spec.parent /\ p = i.ids[m]
    BY <1>3, <1>4 DEF Remapped
  <2>4. p = Root <=> spec.parent = Root
    BY <1>16, <2>3 DEF Root
  <2>5. spec.omitted => n \in bare'
    BY <1>3, <1>5, <1>12
  <2>6. spec.parent # Root =>
            \E m \in 1 .. k - 1 : new.turns[m].id = spec.parent /\ p = new.ids[m]
    BY <1>14, <1>15, <2>3
  <2>7. new.turns[k] = spec
    BY <1>2, <1>14
  <2>8. QED
    BY <1>14, <1>15, <2>1, <2>2, <2>4, <2>5, <2>6, <2>7 DEF Replayed
<1>20. ImportFits(new)'
  <2>1. ArtifactFits(i.turns)'
    BY <1>1, <1>10, ArtifactKept DEF ImportFits
  <2>2. PlanAccepts(new.turns) /\ (new.clean => InOrder(new.turns))
    BY <1>1, <1>14 DEF ImportFits
  <2>3. new.next <= Len(new.turns) + 1 /\ Len(new.ids) = new.next - 1
    BY <1>3, <1>14, <1>15
  <2>4. \A m \in DOMAIN new.ids : Replayed(new, m)'
    BY <1>3, <1>15, <1>18, <1>19
  <2>5. QED
    BY <1>14, <1>17, <2>1, <2>2, <2>3, <2>4 DEF ImportFits, PlanAccepts, InOrder
<1>21. conv'[new.into] # "absent"
  BY <1>1, <1>9, <1>14 DEF FatesKept
<1>22. QED
  BY <1>5, <1>8, <1>9, <1>14, <1>20, <1>21, StoreStepKeepsTransfers

LEMMA TransferStep == TransferInv /\ [TransfersNext]_transferVars => TransferInv'
<1> SUFFICES ASSUME TransferInv, [TransfersNext]_transferVars
             PROVE  TransferInv'
  OBVIOUS
<1>1. ASSUME NEW c \in Original, Export(c) \/ SourceMoves(c)
      PROVE  TransferInv'
  BY <1>1, CopiesAreConv, ExportKeepsTransfers, SourceKeepsTransfers
<1>2. CASE EditArtifact
  BY <1>2, EditKeepsTransfers
<1>3. ASSUME NEW c \in Copies, ImportBegins(c)
      PROVE  TransferInv'
  BY <1>3, ImportBeginsKeepsTransfers
<1>4. ASSUME NEW i \in importing, ImportAppends(i) \/ ImportRefused(i) \/ ImportEnds(i)
      PROVE  TransferInv'
  BY <1>4, ImportAppendsKeepsTransfers, ImportRefusedKeepsTransfers, ImportEndsKeepsTransfers
<1>5. ASSUME NEW c \in Original \cup Copies, BrowserPosts(c) \/ BrowserMoves(c)
      PROVE  TransferInv'
  BY <1>5, CopiesAreConv, BrowserKeepsTransfers
<1>6. CASE TransferStops
  BY <1>6, StopKeepsTransfers
<1>7. CASE UNCHANGED transferVars
  <2>1. StoreStep /\ FatesKept
    BY <1>7, IdleIsStep, LifeKeepsFates, ConversationAssumption
       DEF TransferInv, transferVars, convVars, FatesKept
  <2>2. QED
    BY <1>7, <2>1, StoreStepKeepsTransfers DEF transferVars, importVars
<1>8. QED
  BY <1>1, <1>2, <1>3, <1>4, <1>5, <1>6, <1>7 DEF TransfersNext

LEMMA TransferStart == TransfersInit => TransferInv
<1> SUFFICES ASSUME TransfersInit
             PROVE  TransferInv
  OBVIOUS
<1>1. conv = [c \in Conv |-> "absent"] /\ turns = << >>
  BY DEF TransfersInit, ConversationsInit
<1>2. ConvInv
  BY <1>1, ConversationAssumption
     DEF ConvInv, ConvStatus, HistoryReadable, DeletedIsFinal
<1>3. /\ artifact = << >> /\ edited = FALSE /\ importing = {} /\ imported = {} /\ refused = {}
      /\ artifact \in Seq(TurnSpec) /\ DOMAIN artifact = {}
  BY DEF TransfersInit
<1>4. QED
  BY <1>1, <1>2, <1>3 DEF TransferInv, ArtifactFits, InOrder

\* What ImportFits says of an import, with the numbers spelled out.
LEMMA ImportFacts ==
    ASSUME NEW i, ImportFits(i)
    PROVE  /\ i.turns \in Seq(TurnSpec) /\ DOMAIN i.turns = 1 .. Len(i.turns) /\ Len(i.turns) \in Nat
           /\ i.next \in Nat /\ DOMAIN i.ids = 1 .. i.next - 1 /\ i.next - 1 \in Nat
           /\ \A k \in DOMAIN i.turns : i.turns[k] \in TurnSpec
           /\ \A j, k \in DOMAIN i.ids : i.ids[j] = i.ids[k] => j = k
           /\ \A k \in DOMAIN i.ids : i.ids[k] \in Nat /\ i.ids[k] # Root
<1>1. i.turns \in Seq(TurnSpec) /\ i.ids \in Seq(Nat) /\ i.next \in Nat /\ Len(i.ids) = i.next - 1
  BY DEF ImportFits, Import
<1>2. DOMAIN i.ids = 1 .. i.next - 1 /\ i.next - 1 \in Nat
  BY <1>1
<1>3. \A k \in DOMAIN i.ids : i.ids[k] \in Nat /\ i.ids[k] # Root
  BY <1>1 DEF ImportFits, Replayed, Root
<1>4. \A j, k \in DOMAIN i.ids : i.ids[j] = i.ids[k] => j = k
  <2>1. \A j, k \in DOMAIN i.ids : j < k => i.ids[j] < i.ids[k]
    BY DEF ImportFits
  <2>2. QED
    BY <1>2, <1>3, <2>1
<1>5. QED
  BY <1>1, <1>2, <1>3, <1>4

LEMMA AnsweredIsWhole == TransferInv => ImportedWhole
<1> SUFFICES ASSUME TransferInv, NEW i \in imported
             PROVE  /\ Len(i.ids) = Len(i.turns)
                    /\ \A k \in DOMAIN i.turns :
                          LET spec == i.turns[k]
                              t == turns[i.ids[k]]
                          IN /\ t.conv = i.into /\ t.idx = spec.idx /\ t.role = spec.role
                             /\ t.status # "streaming"
                             /\ t.parent = Root <=> spec.parent = Root
                             /\ \A m \in DOMAIN i.turns :
                                   i.turns[m].id = spec.parent => t.parent = i.ids[m]
                             /\ spec.omitted => ~HasContent(i.ids[k])
  BY DEF ImportedWhole
<1>1. ImportFits(i) /\ i.next > Len(i.turns) /\ i.next <= Len(i.turns) + 1
  BY DEF TransferInv, ImportFits
<1>2. i.next = Len(i.turns) + 1 /\ Len(i.ids) = Len(i.turns) /\ DOMAIN i.ids = DOMAIN i.turns
  BY <1>1, ImportFacts DEF ImportFits
<1>3. ASSUME NEW k \in DOMAIN i.turns, NEW m \in DOMAIN i.turns, i.turns[m].id = i.turns[k].parent
      PROVE  turns[i.ids[k]].parent = i.ids[m]
  <2>1. i.turns[k].parent # Root
    BY <1>1, <1>3, ImportFacts DEF TurnSpec, Root
  <2>2. k \in Nat /\ Len(i.turns) \in Nat /\ DOMAIN i.turns = 1 .. Len(i.turns) /\ Replayed(i, k)
    BY <1>1, <1>2, ImportFacts DEF ImportFits
  <2>3. PICK l \in 1 .. k - 1 : i.turns[l].id = i.turns[k].parent /\ turns[i.ids[k]].parent = i.ids[l]
    BY <2>1, <2>2 DEF Replayed
  <2>4. l \in DOMAIN i.turns
    BY <2>2, <2>3
  <2>5. l = m
    BY <1>1, <1>3, <2>3, <2>4 DEF ImportFits, ArtifactFits
  <2>6. QED
    BY <2>3, <2>5
<1>4. \A k \in DOMAIN i.turns : Replayed(i, k)
  BY <1>1, <1>2 DEF ImportFits
<1>5. QED
  BY <1>2, <1>3, <1>4 DEF Replayed, HasContent

LEMMA CleanImportsAccepted == TransferInv => ExportsImport
<1> SUFFICES ASSUME TransferInv, NEW i \in importing, i.clean, i.next <= Len(i.turns),
                    conv[i.into] = "active", OwnTurns(i.into) = {i.ids[k] : k \in DOMAIN i.ids}
             PROVE  GateAccepts(i)
  BY DEF ExportsImport
<1>1. ImportFits(i) /\ InOrder(i.turns)
  BY DEF TransferInv, ImportFits
<1>2. PICK n, spec : n = i.next /\ spec = i.turns[n]
  OBVIOUS
<1>3. /\ n \in DOMAIN i.turns /\ DOMAIN i.ids = 1 .. n - 1 /\ n \in Nat
      /\ \A m \in 1 .. n - 1 : m \in DOMAIN i.turns /\ m # n
      /\ spec \in TurnSpec
  <2>1. /\ DOMAIN i.turns = 1 .. Len(i.turns) /\ Len(i.turns) \in Nat /\ i.next \in Nat
        /\ i.next - 1 \in Nat /\ DOMAIN i.ids = 1 .. i.next - 1
    BY <1>1, ImportFacts
  <2>2. n \in DOMAIN i.turns /\ \A m \in 1 .. n - 1 : m \in DOMAIN i.turns /\ m # n
    BY <1>2, <2>1
  <2>3. QED
    BY <1>1, <1>2, <2>1, <2>2, ImportFacts
<1>4. \A m \in 1 .. n - 1 : Replayed(i, m)
  BY <1>1, <1>3 DEF ImportFits
<1>5. SUFFICES \E p \in Remapped(i, spec) : AppendAllowed(i.into, p, spec.idx)
  BY <1>2 DEF GateAccepts
<1>6. CASE spec.parent = Root
  <2>1. ASSUME NEW t \in Children(i.into, Root)
        PROVE  FALSE
    <3>1. PICK m \in 1 .. n - 1 : t = i.ids[m]
      BY <1>3 DEF Children
    <3>2. i.turns[m].parent = Root
      BY <1>4, <3>1 DEF Children, Replayed
    <3>3. QED
      BY <1>1, <1>2, <1>3, <1>6, <3>2 DEF InOrder
  <2>2. AppendAllowed(i.into, Root, spec.idx)
    BY <2>1 DEF AppendAllowed, Taken
  <2>3. QED
    BY <1>6, <2>2 DEF Remapped
<1>7. CASE spec.parent # Root
  <2>1. PICK m \in 1 .. n - 1 : i.turns[m].id = spec.parent
    BY <1>1, <1>2, <1>3, <1>7 DEF InOrder
  <2>2. PICK p : p = i.ids[m]
    OBVIOUS
  <2>3. p \in Remapped(i, spec) /\ p \in OwnTurns(i.into) /\ p # Root
    BY <1>1, <1>3, <1>7, <2>1, <2>2, ImportFacts DEF Remapped
  <2>4. ASSUME NEW t \in Children(i.into, p)
        PROVE  turns[t].idx # spec.idx
    <3>1. PICK l \in 1 .. n - 1 : t = i.ids[l]
      BY <1>3 DEF Children
    <3>2. turns[t].parent = p /\ i.turns[l].parent # Root
      BY <1>4, <2>3, <2>4, <3>1 DEF Children, Replayed
    <3>3. PICK q \in 1 .. l - 1 : i.turns[q].id = i.turns[l].parent /\ turns[t].parent = i.ids[q]
      BY <1>4, <3>1, <3>2 DEF Replayed
    <3>4. q \in 1 .. n - 1
      BY <1>3, <3>1, <3>3
    <3>5. q = m
      BY <1>1, <1>3, <2>1, <2>2, <3>2, <3>3, <3>4, ImportFacts
    <3>6. i.turns[l].parent = spec.parent
      BY <2>1, <3>3, <3>5
    <3>7. i.turns[l].idx # spec.idx
      BY <1>1, <1>2, <1>3, <3>1, <3>6 DEF InOrder
    <3>8. QED
      BY <1>4, <3>1, <3>7 DEF Replayed
  <2>5. AppendAllowed(i.into, p, spec.idx)
    BY <2>3, <2>4 DEF AppendAllowed, Taken
  <2>6. QED
    BY <2>3, <2>5
<1>8. QED
  BY <1>6, <1>7

LEMMA TransferInvariant == TransfersSpec => []TransferInv
BY TransferStart, TransferStep, PTL DEF TransfersSpec

LEMMA WholeTransfers == TransferInv => TransfersAreWhole
BY AnsweredIsWhole, CleanImportsAccepted
   DEF TransfersAreWhole, RefusedLeavesNothing, TransferInv

\* Whatever artifact is handed in and whatever the browser, retention and stops of the
\* hub do between two store calls of an import: an import that is answered has replayed
\* its artifact, a refused one has left nothing, and an untouched export is refused only
\* where somebody got at the new conversation (conversation_transfer.py).
THEOREM TransfersStayWhole == TransfersSpec => []TransfersAreWhole
BY TransferInvariant, WholeTransfers, PTL

\* Imports and the browser's posts leave every history readable, and what is deleted
\* stays deleted, with transfers in progress as without (conversation_store.py:173-193).
THEOREM TransfersKeepHistories == TransfersSpec => [](HistoryReadable /\ DeletedIsFinal)
<1>1. TransferInv => HistoryReadable /\ DeletedIsFinal
  BY DEF TransferInv, ConvInv
<1>2. QED
  BY <1>1, TransferInvariant, PTL

-----------------------------------------------------------------------------
(* Types                                                                    *)

\* The child a pre-order goes into comes after its parent.
LEMMA LastChildIsLater ==
    ASSUME ConvInv, NEW c, NEW p \in Nat, Children(c, p) # {}
    PROVE  LastChild(c, p) \in p + 1 .. Len(turns)
<1>1. /\ Len(turns) \in Nat /\ DOMAIN turns = 1 .. Len(turns)
      /\ \A t \in DOMAIN turns : turns[t] \in Row
  BY DEF ConvInv
<1>2. \A t \in DOMAIN turns : turns[t].idx \in 0 .. Len(turns) /\ turns[t].parent < t
  BY <1>1 DEF ConvInv, Row, HistoryReadable
<1>3. \A t \in Children(c, p) : t \in DOMAIN turns /\ turns[t].parent = p
  BY DEF Children, OwnTurns
<1>4. PICK T, n : T = Taken(c, p) /\ n = Len(turns)
  OBVIOUS
<1>5. T \subseteq 0 .. n /\ T # {}
  BY <1>2, <1>3, <1>4 DEF Taken
<1>6. \E m \in T : \A j \in T : j <= m
  BY <1>1, <1>4, <1>5, MaxExists
<1>7. \E t \in Children(c, p) : \A u \in Children(c, p) : turns[u].idx <= turns[t].idx
  BY <1>4, <1>6 DEF Taken
<1>8. LastChild(c, p) \in Children(c, p)
  BY <1>7 DEF LastChild
<1>9. QED
  BY <1>1, <1>2, <1>3, <1>8

\* The descent from the root to the last turn only goes to later turns: the recursion
\* has a solution, by the largest range it has one over, and stays in the history.
LEMMA TipType ==
    ASSUME ConvInv, NEW c
    PROVE  Tip(c) \in 0 .. MaxTurns
<1> DEFINE n == MaxTurns
           Leaf(p) == Children(c, p) = {}
<1>0. n \in Nat /\ \A p \in 0 .. n : ~Leaf(p) => LastChild(c, p) \in p + 1 .. n
  BY LastChildIsLater, ConversationAssumption DEF ConvInv
<1> HIDE DEF n, Leaf
<1> DEFINE Descends(g, k) == \A p \in k .. n : g[p] = IF Leaf(p) THEN p ELSE g[LastChild(c, p)]
           T == {j \in 0 .. n : \E g \in [n - j .. n -> 0 .. n] : Descends(g, n - j)}
<1>1. 0 \in T
  <2>1. PICK g : g = [p \in n .. n |-> n]
    OBVIOUS
  <2>2. n \in 0 .. n /\ n + 1 .. n = {} /\ n - 0 = n /\ n .. n = {n}
    BY <1>0
  <2>3. Leaf(n)
    BY <1>0, <2>2
  <2>4. g \in [n - 0 .. n -> 0 .. n] /\ Descends(g, n - 0)
    BY <2>1, <2>2, <2>3
  <2>5. QED
    BY <1>0, <2>4
<1>2. PICK m \in T : \A j \in T : j <= m
  <2>1. PICK S : S = T
    OBVIOUS
  <2>2. S \subseteq 0 .. n /\ S # {}
    BY <1>1, <2>1
  <2>3. QED
    BY <1>0, <2>1, <2>2, MaxExists
<1>3. m = n
  <2>1. SUFFICES ASSUME m # n
                 PROVE  m + 1 \in T
    BY <1>2
  <2>2. PICK g \in [n - m .. n -> 0 .. n] : Descends(g, n - m)
    BY <1>2
  <2>3. PICK k : k = n - (m + 1)
    OBVIOUS
  <2>4. k \in 0 .. n /\ n - m = k + 1 /\ m + 1 \in 0 .. n
    BY <1>0, <1>2, <2>1, <2>3
  <2>5. PICK h : h = [p \in k .. n |-> IF p = k THEN IF Leaf(k) THEN k ELSE g[LastChild(c, k)] ELSE g[p]]
    OBVIOUS
  <2>6. g \in [k + 1 .. n -> 0 .. n] /\ Descends(g, k + 1)
    BY <2>2, <2>4
  <2>7. \A p \in k + 1 .. n : h[p] = g[p] /\ g[p] \in 0 .. n
    BY <2>4, <2>5, <2>6
  <2>8. ~Leaf(k) => LastChild(c, k) \in k + 1 .. n
    BY <1>0, <2>4
  <2>9. h[k] = (IF Leaf(k) THEN k ELSE g[LastChild(c, k)]) /\ h[k] \in 0 .. n
    BY <2>4, <2>5, <2>7, <2>8
  <2>10. h \in [k .. n -> 0 .. n]
    BY <2>4, <2>5, <2>7, <2>9
  <2>11. Descends(h, k)
    <3>1. ASSUME NEW p \in k .. n
          PROVE  h[p] = IF Leaf(p) THEN p ELSE h[LastChild(c, p)]
      <4>1. CASE p = k
        BY <2>7, <2>8, <2>9, <4>1
      <4>2. CASE p # k
        <5>1. p \in k + 1 .. n /\ (~Leaf(p) => LastChild(c, p) \in k + 1 .. n)
          BY <1>0, <2>4, <4>2
        <5>2. QED
          BY <2>6, <2>7, <5>1
      <4>3. QED
        BY <4>1, <4>2
    <3>2. QED
      BY <3>1
  <2>12. QED
    BY <2>3, <2>4, <2>10, <2>11
<1>4. PICK g \in [0 .. n -> 0 .. n] : Descends(g, 0)
  <2>1. \E g \in [n - n .. n -> 0 .. n] : Descends(g, n - n)
    BY <1>2, <1>3
  <2>2. n - n = 0
    BY <1>0
  <2>3. QED
    BY <2>1, <2>2
<1> DEFINE last[p \in 0 .. n] == IF Leaf(p) THEN p ELSE last[LastChild(c, p)]
<1>5. g = [p \in 0 .. n |-> IF Leaf(p) THEN p ELSE g[LastChild(c, p)]]
  BY <1>4
<1>6. last = [p \in 0 .. n |-> IF Leaf(p) THEN p ELSE last[LastChild(c, p)]]
  <2>1. \E f : f = [p \in 0 .. n |-> IF Leaf(p) THEN p ELSE f[LastChild(c, p)]]
    BY <1>5
  <2>2. QED
    BY <2>1
<1> HIDE DEF last
<1>7. \A p \in 0 .. n : last[p] \in 0 .. n
  <2>1. PICK S : S = {p \in 0 .. n : last[p] \notin 0 .. n}
    OBVIOUS
  <2>2. SUFFICES ASSUME S # {}
                 PROVE  FALSE
    BY <2>1
  <2>3. PICK p \in S : \A q \in S : q <= p
    BY <1>0, <2>1, <2>2, MaxExists
  <2>4. p \in 0 .. n /\ last[p] = IF Leaf(p) THEN p ELSE last[LastChild(c, p)]
    BY <1>6, <2>1
  <2>5. ~Leaf(p) /\ LastChild(c, p) \in p + 1 .. n
    BY <1>0, <2>1, <2>3, <2>4
  <2>6. LastChild(c, p) \notin S
    BY <2>3, <2>4, <2>5
  <2>7. QED
    BY <2>1, <2>3, <2>4, <2>5, <2>6
<1>8. Tip(c) = last[0]
  BY DEF Tip, last, n, Leaf, Root
<1>9. QED
  BY <1>0, <1>7, <1>8 DEF n

\* What the streams keep that no other invariant needs: their places, their deltas and
\* their tokens.
Rest ==
    /\ bound \in Mixes /\ hub \in {"up", "down"} /\ stops \in Nat
    /\ lineage \in [Streams -> [parent : 0 .. MaxTurns, idx : Nat]]
    /\ base \in [Streams -> 0 .. MaxTurns]
    /\ deltas \in [Streams -> Nat]
    /\ token \in [Streams -> BOOLEAN]

\* A place in the store that a step gives to a stream.
RestMove ==
    /\ UNCHANGED <<bound, hub, stops>>
    /\ \/ lineage' = lineage
       \/ \E s \in Streams, c \in Conv : lineage' = [lineage EXCEPT ![s] = SendLineage(c)]
    /\ \/ base' = base
       \/ HasRoom /\ \E s \in Streams : base' = [base EXCEPT ![s] = Len(turns) + 1]
    /\ \/ deltas' = deltas
       \/ \E s \in Streams : deltas' = [deltas EXCEPT ![s] = @ + 1]
    /\ \/ token' = token
       \/ \E s \in Streams : token' = [token EXCEPT ![s] = TRUE]

LEMMA RestMoves == ConvInv /\ Rest /\ RestMove => Rest'
<1> SUFFICES ASSUME ConvInv, Rest, RestMove
             PROVE  Rest'
  OBVIOUS
<1>1. lineage' \in [Streams -> [parent : 0 .. MaxTurns, idx : Nat]]
  <2>1. ASSUME NEW c \in Conv
        PROVE  SendLineage(c) \in [parent : 0 .. MaxTurns, idx : Nat]
    <3>1. Tip(c) \in 0 .. MaxTurns
      BY TipType
    <3>2. NextSibling(c, Tip(c)) \in Nat
      BY NextSiblingType
    <3>3. QED
      BY <3>1, <3>2 DEF SendLineage
  <2>2. QED
    BY <2>1 DEF Rest, RestMove
<1>2. base' \in [Streams -> 0 .. MaxTurns]
  <2>1. HasRoom => Len(turns) + 1 \in 0 .. MaxTurns
    BY ConversationAssumption DEF HasRoom, ConvInv
  <2>2. QED
    BY <2>1 DEF Rest, RestMove
<1>3. deltas' \in [Streams -> Nat] /\ token' \in [Streams -> BOOLEAN]
  <2>1. deltas' \in [Streams -> Nat]
    <3>1. ASSUME NEW s \in Streams, deltas' = [deltas EXCEPT ![s] = @ + 1]
          PROVE  deltas' \in [Streams -> Nat]
      <4>1. deltas[s] + 1 \in Nat
        BY DEF Rest
      <4>2. QED
        BY <3>1, <4>1 DEF Rest
    <3>2. QED
      BY <3>1 DEF Rest, RestMove
  <2>2. token' \in [Streams -> BOOLEAN]
    BY DEF Rest, RestMove
  <2>3. QED
    BY <2>1, <2>2
<1>4. bound' \in Mixes /\ hub' \in {"up", "down"} /\ stops' \in Nat
  BY DEF Rest, RestMove
<1>5. QED
  BY <1>1, <1>2, <1>3, <1>4 DEF Rest

LEMMA OpeningMovesRest ==
    ASSUME UNCHANGED <<bound, hub, stops>>, NEW s \in Streams, OpenStep(s)
    PROVE  RestMove
<1>1. CASE \E c \in Conv : SendReads(s, c)
  BY <1>1 DEF SendReads, RestMove
<1>2. CASE \E c \in Conv : \E p \in OwnTurns(c) : RunForks(s, c, p)
  BY <1>2 DEF RunForks, BranchTurn, AppendTurn, RestMove
<1>3. QED
  BY <1>1, <1>2 DEF OpenStep

LEMMA DispatchMovesRest ==
    ASSUME UNCHANGED <<bound, hub, stops>>, DispatchStep
    PROVE  RestMove
<1>1. \A i \in DOMAIN Batch : Batch[i] \in Streams
  BY StreamSets
<1>2. ASSUME NEW c \in Conv, NEW p \in OwnTurns(c), DispatchStarts(c, p)
      PROVE  RestMove
  <2>1. 1 \in DOMAIN Batch
    BY StreamAssumption, StreamSets
  <2>2. QED
    BY <1>1, <1>2, <2>1 DEF DispatchStarts, BranchTurn, AppendTurn, RestMove
<1>3. ASSUME NEW i \in DOMAIN Batch, DispatchForks(i)
      PROVE  RestMove
  BY <1>1, <1>3 DEF DispatchForks, BranchTurn, AppendTurn, RestMove
<1>4. ASSUME NEW i \in DOMAIN Batch, DispatchForkFails(i)
      PROVE  RestMove
  BY <1>4 DEF DispatchForkFails, RestMove
<1>5. QED
  BY <1>2, <1>3, <1>4 DEF DispatchStep

LEMMA ThreadMovesRest ==
    ASSUME UNCHANGED <<bound, hub, stops>>, NEW s \in Streams, ThreadStep(s)
    PROVE  RestMove
<1>1. CASE ThreadReads(s)
  BY <1>1 DEF ThreadReads, RestMove
<1>2. CASE ThreadEnters(s) \/ ThreadBegins(s) \/ ThreadCommits(s) \/ ThreadSettles(s)
  BY <1>2 DEF ThreadEnters, ThreadBegins, ThreadCommits, ThreadSettles, RestMove
<1>3. QED
  BY <1>1, <1>2 DEF ThreadStep

LEMMA LoopMovesRest ==
    ASSUME UNCHANGED <<bound, hub, stops>>, NEW s \in Streams, LeaveStep(s) \/ LoopStep(s)
    PROVE  RestMove
<1>1. CASE SendWrites(s)
  BY <1>1 DEF SendWrites, AppendTurn, RestMove
<1>2. CASE SettleResponse(s) \/ SettleTurn(s)
  BY <1>2 DEF SettleResponse, SettleTurn, RestMove
<1>3. CASE BodyStarts(s) \/ BodyNeverStarts(s) \/ ClientLeaves(s)
  BY <1>3 DEF BodyStarts, BodyNeverStarts, ClientLeaves, RestMove
<1>4. CASE \/ YieldsDelta(s) \/ PersistAnswer(s) \/ PersistFails(s) \/ CommitAnswer(s)
           \/ FinishAttempt(s)
  BY <1>4 DEF YieldsDelta, PersistAnswer, PersistFails, CommitAnswer, FinishAttempt, RestMove
<1>5. QED
  BY <1>1, <1>2, <1>3, <1>4 DEF LeaveStep, LoopStep

LEMMA RestStep == ConvInv /\ Rest /\ [Next]_vars => Rest'
<1> SUFFICES ASSUME ConvInv, Rest, [Next]_vars
             PROVE  Rest'
  OBVIOUS
<1>1. CASE UNCHANGED vars
  BY <1>1 DEF vars, loopVars, Rest
<1>2. CASE HubOpens
  BY <1>2 DEF HubOpens, loopVars, Rest
<1>3. CASE HubStops \/ HubStopsInDeletion
  <2>1. Stops
    BY <1>3 DEF HubStops, HubStopsInDeletion
  <2>2. QED
    BY <2>1 DEF Stops, Rest
<1>4. CASE ClientStep \/ RetentionStep
  BY <1>4 DEF ClientStep, RetentionStep, loopVars, Rest
<1>5. CASE /\ UNCHANGED <<bound, hub, stops>>
           /\ \/ \E s \in Streams : OpenStep(s) \/ ThreadStep(s) \/ LeaveStep(s) \/ LoopStep(s)
              \/ DispatchStep \/ BranchesStart \/ LeaveAtAnnounce
  <2>1. CASE BranchesStart \/ LeaveAtAnnounce
    BY <1>5, <2>1 DEF BranchesStart, LeaveAtAnnounce, Rest
  <2>2. CASE \/ \E s \in Streams : OpenStep(s) \/ ThreadStep(s) \/ LeaveStep(s) \/ LoopStep(s)
             \/ DispatchStep
    <3>1. RestMove
      BY <1>5, <2>2, OpeningMovesRest, DispatchMovesRest, ThreadMovesRest, LoopMovesRest
    <3>2. QED
      BY <3>1, RestMoves
  <2>3. QED
    BY <1>5, <2>1, <2>2
<1>6. QED
  BY <1>1, <1>2, <1>3, <1>4, <1>5 DEF Next

LEMMA RestStart == Init => Rest
<1> SUFFICES ASSUME Init
             PROVE  Rest
  OBVIOUS
<1>1. Root \in 0 .. MaxTurns
  BY ConversationAssumption DEF Root
<1>2. lineage \in [Streams -> [parent : 0 .. MaxTurns, idx : Nat]]
  BY <1>1 DEF Init
<1>3. QED
  BY <1>1, <1>2 DEF Init, Rest

\* The rows of a readable history fit the store.
LEMMA ConvTyped == ConvInv => ConversationsTypeOK
<1> SUFFICES ASSUME ConvInv
             PROVE  turns \in Seq(Turn)
  BY DEF ConvInv, ConversationsTypeOK
<1>1. Len(turns) \in 0 .. MaxTurns /\ DOMAIN turns = 1 .. Len(turns)
  BY ConversationAssumption DEF ConvInv
<1>2. ASSUME NEW t \in 1 .. Len(turns)
      PROVE  turns[t] \in Turn
  <2>1. turns[t] \in Row /\ turns[t].idx <= t /\ turns[t].parent < t
    BY <1>1, <1>2 DEF ConvInv, HistoryReadable
  <2>2. turns[t].parent \in 0 .. MaxTurns /\ turns[t].idx \in 0 .. MaxTurns
    BY <1>1, <1>2, <2>1, ConversationAssumption DEF Row
  <2>3. QED
    BY <2>1, <2>2 DEF Row, Turn
<1>3. QED
  BY <1>1, <1>2 DEF ConvInv

\* Every variable of the endpoints and of their two stores stays in its range: turns,
\* places and bases within the store, counters that never wrap, and only the states the
\* handlers know (conversation_api.py, conversation_store.py, response_lifecycle_store.py).
THEOREM ChatTypeCorrect == Spec => []ChatTypeOK
<1>1. Spec => []Rest
  <2>1. StreamInv => ConvInv
    BY DEF StreamInv, ChatInv
  <2>2. QED
    BY <2>1, RestStart, RestStep, StreamInvariant, PTL DEF Spec
<1>2. StreamInv /\ Rest => ChatTypeOK
  <2> SUFFICES ASSUME StreamInv, Rest
               PROVE  ChatTypeOK
    OBVIOUS
  <2>1. ConversationsTypeOK /\ ResponsesTypeOK /\ LoopInv /\ slots \in [Router -> Nat]
    BY ConvTyped DEF StreamInv, ChatInv, SlotsCount
  <2>2. QED
    BY <2>1 DEF Rest, LoopInv, ChatTypeOK
<1>3. QED
  BY <1>1, <1>2, StreamInvariant, PTL

\* A turn is never taken out of the store: rows are settled and purged where they are.
LEMMA AppendGrows ==
    ASSUME ConvInv, NEW c, NEW p, NEW i, NEW role, NEW status, NEW by,
           AppendTurn(c, p, i, role, status, by)
    PROVE  DOMAIN turns \subseteq DOMAIN turns' /\ Len(turns') \in DOMAIN turns'
<1>1. Len(turns) \in Nat /\ DOMAIN turns = 1 .. Len(turns)
  BY DEF ConvInv
<1>2. PICK row : turns' = Append(turns, row)
  BY DEF AppendTurn
<1>3. Len(turns') = Len(turns) + 1 /\ DOMAIN turns' = 1 .. Len(turns) + 1
  BY <1>2 DEF ConvInv
<1>4. QED
  BY <1>1, <1>3

LEMMA TurnsGrow ==
    ASSUME TransferInv, [TransfersNext]_transferVars
    PROVE  DOMAIN turns \subseteq DOMAIN turns'
<1>1. /\ ConvInv /\ Len(turns) \in Nat /\ DOMAIN turns = 1 .. Len(turns)
      /\ \A i \in importing : i.into \in Conv
  BY CopiesAreConv DEF TransferInv, ConvInv, ImportFits, Import
<1>2. ASSUME RowsSettle
      PROVE  DOMAIN turns \subseteq DOMAIN turns'
  BY <1>1, <1>2 DEF RowsSettle
<1>3. ASSUME NEW c \in Conv, CreateConversation(c) \/ ArchiveConversation(c) \/ EnforceRetention({c})
      PROVE  DOMAIN turns \subseteq DOMAIN turns'
  BY <1>1, <1>2, <1>3, ConversationSettles, RetentionSettles
<1>4. ASSUME NEW c \in Conv, NEW mode \in {"tombstone", "erase"}, DeleteConversation(c, mode)
      PROVE  DOMAIN turns \subseteq DOMAIN turns'
  BY <1>1, <1>2, <1>4, DeleteSettles
<1>5. ASSUME NEW c \in Original, Export(c) \/ SourceMoves(c)
      PROVE  DOMAIN turns \subseteq DOMAIN turns'
  BY <1>3, <1>5, CopiesAreConv DEF Export, SourceMoves, convVars
<1>6. ASSUME NEW c \in Conv, BrowserPosts(c) \/ BrowserMoves(c)
      PROVE  DOMAIN turns \subseteq DOMAIN turns'
  BY <1>1, <1>3, <1>4, <1>6, AppendGrows DEF BrowserPosts, BrowserMoves
<1>7. ASSUME NEW c \in Copies, ImportBegins(c)
      PROVE  DOMAIN turns \subseteq DOMAIN turns'
  BY <1>3, <1>7, CopiesAreConv DEF ImportBegins
<1>8. ASSUME NEW i \in importing, ImportAppends(i) \/ ImportRefused(i) \/ ImportEnds(i)
      PROVE  DOMAIN turns \subseteq DOMAIN turns'
  BY <1>1, <1>4, <1>8, AppendGrows DEF ImportAppends, ImportRefused, ImportEnds, RolledBack, convVars
<1>9. CASE TransferStops
  BY <1>1, <1>2, <1>9, RecoverySettles DEF TransferStops
<1>10. QED
  BY <1>5, <1>6, <1>7, <1>8, <1>9, CopiesAreConv
     DEF TransfersNext, EditArtifact, transferVars, convVars

\* One import at a time, and what is remembered of turns and refusals exists.
TransferTyped ==
    /\ bare \subseteq DOMAIN turns
    /\ importing = {} \/ \E i : importing = {i}
    /\ refused \subseteq Copies

LEMMA TransferTypeStep ==
    TransferInv /\ TransferTyped /\ [TransfersNext]_transferVars => TransferTyped'
<1> SUFFICES ASSUME TransferInv, TransferTyped, [TransfersNext]_transferVars
             PROVE  TransferTyped'
  OBVIOUS
<1>1. DOMAIN turns \subseteq DOMAIN turns'
  BY TurnsGrow
<1>2. ASSUME NEW c \in Conv, NEW p, NEW i, NEW role, NEW status, NEW by,
             AppendTurn(c, p, i, role, status, by), bare' \subseteq bare \cup {Len(turns')}
      PROVE  bare' \subseteq DOMAIN turns'
  BY <1>1, <1>2, AppendGrows DEF TransferTyped, TransferInv
<1>3. ASSUME UNCHANGED <<bare, refused>>, importing' \in {importing, {}}
      PROVE  TransferTyped'
  BY <1>1, <1>3 DEF TransferTyped
<1>4. ASSUME NEW c \in Original, Export(c) \/ SourceMoves(c)
      PROVE  TransferTyped'
  BY <1>3, <1>4 DEF Export, SourceMoves, importVars
<1>5. CASE EditArtifact \/ TransferStops \/ UNCHANGED transferVars
  BY <1>3, <1>5 DEF EditArtifact, TransferStops, importVars, transferVars
<1>6. ASSUME NEW c \in Copies, ImportBegins(c)
      PROVE  TransferTyped'
  BY <1>1, <1>6 DEF ImportBegins, TransferTyped
<1>7. ASSUME NEW i \in importing, ImportAppends(i)
      PROVE  TransferTyped'
  <2>1. i.into \in Conv
    BY CopiesAreConv DEF TransferInv, ImportFits, Import
  <2>2. PICK p, idx, role, status : AppendTurn(i.into, p, idx, role, status, Client)
    BY <1>7 DEF ImportAppends
  <2>3. bare' \subseteq bare \cup {Len(turns')}
    BY <1>7 DEF ImportAppends
  <2>4. bare' \subseteq DOMAIN turns'
    BY <1>2, <2>1, <2>2, <2>3
  <2>5. \E j : importing' = {j}
    BY <1>7 DEF ImportAppends
  <2>6. refused' = refused
    BY <1>7 DEF ImportAppends
  <2>7. QED
    BY <2>4, <2>5, <2>6 DEF TransferTyped
<1>8. ASSUME NEW i \in importing, ImportRefused(i) \/ ImportEnds(i)
      PROVE  TransferTyped'
  <2>1. i.into \in Copies
    BY DEF TransferInv, ImportFits, Import
  <2>2. QED
    BY <1>1, <1>8, <2>1 DEF ImportRefused, ImportEnds, TransferTyped
<1>9. ASSUME NEW c \in Original \cup Copies, BrowserPosts(c)
      PROVE  TransferTyped'
  <2>1. PICK p, i, status : AppendTurn(c, p, i, "user", status, Client)
    BY <1>9 DEF BrowserPosts
  <2>2. bare' \subseteq bare \cup {Len(turns')} /\ UNCHANGED importVars
    BY <1>9 DEF BrowserPosts
  <2>3. bare' \subseteq DOMAIN turns'
    BY <1>2, <2>1, <2>2, CopiesAreConv
  <2>4. QED
    BY <2>2, <2>3 DEF TransferTyped, importVars
<1>10. ASSUME NEW c \in Original \cup Copies, BrowserMoves(c)
       PROVE  TransferTyped'
  BY <1>3, <1>10 DEF BrowserMoves, importVars
<1>11. QED
  BY <1>4, <1>5, <1>6, <1>7, <1>8, <1>9, <1>10 DEF TransfersNext

LEMMA TransfersTyped == TransferInv /\ TransferTyped => TransfersTypeOK
<1> SUFFICES ASSUME TransferInv, TransferTyped
             PROVE  TransfersTypeOK
  OBVIOUS
<1>1. ConversationsTypeOK
  BY ConvTyped DEF TransferInv
<1>2. Cardinality(importing) <= 1
  <2>1. CASE importing = {}
    BY <2>1, FS_EmptySet
  <2>2. ASSUME NEW i, importing = {i}
        PROVE  Cardinality(importing) <= 1
    <3>1. Cardinality({i}) = 1
      BY FS_Singleton
    <3>2. QED
      BY <2>2, <3>1
  <2>3. QED
    BY <2>1, <2>2 DEF TransferTyped
<1>3. ASSUME NEW i \in importing \cup imported
      PROVE  i.into \in Copies /\ i.next \in 1 .. Len(i.turns) + 1
  <2>1. ImportFits(i) /\ i \in Import
    BY <1>3 DEF TransferInv, ImportFits
  <2>2. i.into \in Copies /\ i.turns \in Seq(TurnSpec) /\ i.next \in Nat /\ i.ids \in Seq(Nat)
    BY <2>1 DEF Import
  <2>3. Len(i.ids) \in Nat /\ Len(i.turns) \in Nat
    BY <2>2
  <2>4. i.next <= Len(i.turns) + 1 /\ Len(i.ids) = i.next - 1
    BY <2>1 DEF ImportFits
  <2>5. QED
    BY <2>2, <2>3, <2>4
<1>4. QED
  BY <1>1, <1>2, <1>3 DEF TransfersTypeOK, TransferInv, TransferTyped

\* Every variable of the transfers stays in its range: one import at a time, into a
\* conversation of its own and never past the end of its artifact (import_apply).
THEOREM TransfersTypeCorrect == TransfersSpec => []TransfersTypeOK
<1>1. TransfersInit => TransferTyped
  BY DEF TransfersInit, TransferTyped
<1>2. QED
  BY <1>1, TransferInvariant, TransferTypeStep, TransfersTyped, PTL DEF TransfersSpec
=============================================================================
