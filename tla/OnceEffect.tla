----------------------------- MODULE OnceEffect -----------------------------
(***************************************************************************)
(* What every store that guards an effect by a key promises: an attempt    *)
(* that failed may be tried again, an attempt that was recorded is never   *)
(* run again, and no key is run by two callers at a time.                  *)
(***************************************************************************)
CONSTANT Effect
VARIABLES running, settled

vars == <<running, settled>>

Init == running = {} /\ settled = {}

Starts(k) ==
    /\ k \notin running \cup settled
    /\ running' = running \cup {k}
    /\ UNCHANGED settled

Drops(k) ==
    /\ k \in running
    /\ running' = running \ {k}
    /\ UNCHANGED settled

Settles(k) ==
    /\ k \in running
    /\ running' = running \ {k}
    /\ settled' = settled \cup {k}

Next == \E k \in Effect : Starts(k) \/ Drops(k) \/ Settles(k)

Spec == Init /\ [][Next]_vars
============================================================================
