----------------------------- MODULE Validators -----------------------------
(***************************************************************************)
(* The checks the code makes in more than one place: the pins of a command *)
(* (WorkflowPins) and the controls and pins of an advanced route           *)
(* (AdvancedPlayground).  The two share no state.                          *)
(***************************************************************************)
EXTENDS WorkflowPins, AdvancedPlayground

\* Where the code checks one thing in several places, the places agree: the drift check,
\* the hub's resolution, the bridge and the contract's reference validator on a command;
\* the run endpoint and the contract on an advanced branch; the preset store, the
\* repair listing and the run endpoint on a route pin.
ValidatorsAgree == PinValidatorsAgree /\ SelectionsMakeBranches /\ PinReadingsAgree
=============================================================================
