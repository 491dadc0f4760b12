------------------------------ MODULE Records ------------------------------
(***************************************************************************)
(* The hub's once-only stores and what is built on them, and the workflow  *)
(* cursor, put together.  No two of these parts share a store in the code, *)
(* and the tool calls and the policy gate each keep receipts of their own: *)
(* so each behaviour belongs to one scene and leaves the state of the      *)
(* others alone.                                                           *)
(***************************************************************************)
EXTENDS ToolDispatch, PolicyGate, EffectiveSettings, OnceStores, Plugins, Directives,
        WorkflowCursor

CONSTANT Scenes         \* the scenes a behaviour may belong to

\* The two receipt stores as one: no tool request has the digest of an operation.
ASSUME RecordsAssumption == Request \cap Op = {}

VARIABLE scene

storeVars == <<operationVars, dispatchVars, prefVars, gateVars, onceVars, pluginVars,
               directiveVars>>
recordsVars == <<scene, storeVars, vars>>

RecordsInit ==
    /\ scene \in Scenes
    /\ OperationsInit /\ DispatchInit /\ PreferencesInit /\ GateInit
    /\ OnceInit /\ PluginsInit /\ DirectivesInit
    /\ Init

InTools(A) ==
    /\ scene = "tools" /\ A
    /\ UNCHANGED <<scene, prefVars, gateVars, onceVars, pluginVars, directiveVars, vars>>

InPlugins(one, A) ==
    /\ scene = one /\ A
    /\ UNCHANGED <<scene, operationVars, dispatchVars, prefVars, gateVars, onceVars,
                   directiveVars, vars>>

InCursor(A) == scene = "cursor" /\ A /\ UNCHANGED <<scene, storeVars>>

RecordsNext ==
    \/ InTools(DispatchNext)
    \/ /\ scene = "policy" /\ GateNext
       /\ UNCHANGED <<scene, dispatchVars, onceVars, pluginVars, directiveVars, vars>>
    \/ /\ scene = "tabs" /\ TabStep
       /\ UNCHANGED <<scene, operationVars, dispatchVars, gateVars, onceVars, pluginVars, directiveVars, vars>>
    \/ /\ scene = "once" /\ OnceNext
       /\ UNCHANGED <<scene, operationVars, dispatchVars, prefVars, gateVars, pluginVars, directiveVars, vars>>
    \/ InPlugins("installs", InstallNext)
    \/ InPlugins("calls", CallNext)
    \/ InPlugins("options", OptionNext)
    \/ /\ scene = "directives" /\ DirectivesNext
       /\ UNCHANGED <<scene, operationVars, dispatchVars, prefVars, gateVars, onceVars, pluginVars, vars>>
    \/ InCursor(Next)

RecordsSpec == RecordsInit /\ [][RecordsNext]_recordsVars

----------------------------------------------------------------------------
\* The state of every part has its type.
RecordsTypeOK ==
    /\ OperationsTypeOK /\ DispatchTypeOK /\ PreferencesTypeOK /\ GateTypeOK
    /\ OnceTypeOK /\ PluginsTypeOK /\ DirectivesTypeOK /\ TypeOK

\* Every guarded effect of the hub happens at most once per key: tool calls, policy
\* operations, keyed conversation requests, Deliver starts and plugin installs.
EffectsOnce ==
    /\ ToolEffects!Spec
    /\ PolicyEffects!Spec
    /\ IdempotentEffects!Spec
    /\ DeliverEffects!Spec
    /\ InstallEffects!Spec
============================================================================
