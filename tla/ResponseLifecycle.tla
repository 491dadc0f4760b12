------------------------- MODULE ResponseLifecycle -------------------------
(***************************************************************************)
(* The reconnect-safe response store                                       *)
(* (src/workbench/response_lifecycle_store.py): one record per streamed    *)
(* response, and one high-water mark of sequence numbers per conversation. *)
(* Every method runs under the store's lock, so each is one step.          *)
(***************************************************************************)
EXTENDS Naturals, FiniteSets

CONSTANTS Request,       \* response request ids
          Thread         \* the conversations the responses belong to

VARIABLES resp,          \* the record of each request
          convSeq        \* the sequence high-water mark of each conversation

respVars == <<resp, convSeq>>

TerminalState == {"completed", "cancelled", "timed_out", "interrupted"}
LifecycleState == {"absent", "in_progress"} \cup TerminalState

NoResponse == [state |-> "absent", version |-> 0, committed |-> 0]

\* Mutant: a new record has already committed a frame.
MutantBegin(r) ==
    /\ resp[r].state = "absent"
    /\ resp' = [resp EXCEPT ![r] = [state |-> "in_progress", version |-> 1, committed |-> 1]]
    /\ UNCHANGED convSeq

\* begin: a request begins exactly once.
Begin(r) ==
    /\ resp[r].state = "absent"
    /\ resp' = [resp EXCEPT ![r] = [state |-> "in_progress", version |-> 1, committed |-> 0]]
    /\ UNCHANGED convSeq

\* Mutant: only the sequence number is compared.
MutantMayCommit(r, seq) == resp[r].state # "absent" /\ seq > resp[r].committed

\* What advance demands: a live record, and a sequence number above the last
\* one committed.
MayCommit(r, seq) == resp[r].state = "in_progress" /\ seq > resp[r].committed

\* advance with a sequence number; c is the record's conversation.
Advance(r, c, state, seq) ==
    /\ MayCommit(r, seq)
    /\ resp' = [resp EXCEPT ![r] =
                   [state |-> state, committed |-> seq,
                    version |-> IF state = @.state THEN @.version ELSE @.version + 1]]
    /\ convSeq' = [convSeq EXCEPT ![c] = IF seq > @ THEN seq ELSE @]

\* advance without one: only a change of state is worth committing.
AdvanceUnnumbered(r, state) ==
    /\ resp[r].state = "in_progress" /\ state # "in_progress"
    /\ resp' = [resp EXCEPT ![r].state = state, ![r].version = @ + 1]
    /\ UNCHANGED convSeq

\* next_seq: the next number of the conversation, stored before it is used.
DrawSeq(c) ==
    /\ convSeq' = [convSeq EXCEPT ![c] = @ + 1]
    /\ UNCHANGED resp

\* recover_interrupted when the store is opened: the state version is not bumped.
RecoverResponses ==
    /\ resp' = [r \in Request |->
                  IF resp[r].state = "in_progress"
                  THEN [resp[r] EXCEPT !.state = "interrupted"] ELSE resp[r]]
    /\ UNCHANGED convSeq

ResponsesInit ==
    /\ resp = [r \in Request |-> NoResponse]
    /\ convSeq = [c \in Thread |-> 0]

ResponsesTypeOK ==
    /\ resp \in [Request -> [state : LifecycleState, version : Nat, committed : Nat]]
    /\ convSeq \in [Thread -> Nat]
============================================================================
