------------------------------ MODULE Displays ------------------------------
(***************************************************************************)
(* The chain of pins, the Advanced playground, the display records with    *)
(* their seed, and the transfers of conversations, put together.  They     *)
(* share no store in the code: each behaviour belongs to one scene and     *)
(* leaves the state of the others alone.                                   *)
(***************************************************************************)
EXTENDS Validators, ProjectionSeed, Transfers

CONSTANT Scenes         \* the scenes a behaviour may belong to

VARIABLE scene

recordVars == <<seedVars, projectionVars>>
sceneVars == <<scene, pinVars, playVars, recordVars, transferVars>>

DisplaysInit ==
    /\ scene \in Scenes
    /\ PinsInit /\ PlaygroundInit /\ ProjectionInit /\ SeedInit /\ TransfersInit

DisplaysNext ==
    \/ scene = "pins" /\ PinsNext /\ UNCHANGED <<scene, playVars, recordVars, transferVars>>
    \/ scene = "playground" /\ PlaygroundNext /\ UNCHANGED <<scene, pinVars, recordVars, transferVars>>
    \/ scene = "context" /\ ContextNext /\ UNCHANGED <<scene, pinVars, playVars, seedVars, transferVars>>
    \/ scene = "display" /\ DisplayNext /\ UNCHANGED <<scene, pinVars, playVars, seedVars, transferVars>>
    \/ scene = "seed" /\ SeedNext /\ UNCHANGED <<scene, pinVars, playVars, transferVars>>
    \/ scene = "transfers" /\ TransfersNext /\ UNCHANGED <<scene, pinVars, playVars, recordVars>>

DisplaysSpec == DisplaysInit /\ [][DisplaysNext]_sceneVars

----------------------------------------------------------------------------
\* The state of every part has its type.
DisplaysTypeOK == PinsTypeOK /\ PlaygroundTypeOK /\ ProjectionTypeOK /\ SeedTypeOK /\ TransfersTypeOK
============================================================================
