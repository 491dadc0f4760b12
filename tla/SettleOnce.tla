----------------------------- MODULE SettleOnce -----------------------------
(***************************************************************************)
(* What a reader of a streamed record is promised: the record is opened at *)
(* most once, reaches at most one outcome, and keeps it.  Several records  *)
(* may move in one step, as they do when a restarted hub settles all that  *)
(* the stopped one left open; a record may also be stored already settled. *)
(***************************************************************************)
CONSTANTS Item, Outcome
VARIABLE phase

Phase == {"none", "open"} \cup Outcome

May(from, to) ==
    \/ from = "none" /\ to \in {"open"} \cup Outcome
    \/ from = "open" /\ to \in Outcome

Init == phase = [i \in Item |-> "none"]

Next ==
    /\ phase' \in [Item -> Phase]
    /\ \A i \in Item : phase'[i] # phase[i] => May(phase[i], phase'[i])

Spec == Init /\ [][Next]_phase
============================================================================
