------------------------- MODULE EffectiveSettings -------------------------
(***************************************************************************)
(* What a setting is worth to whoever reads it (resolve_effective_value    *)
(* and resolve_effective_settings of src/workbench/models.py): the stored  *)
(* value or the default, repaired where it names a reference that is not   *)
(* live, held down to the ceiling another setting puts on it.  The         *)
(* resolver has no state: it reads the cells of Preferences.  Values are   *)
(* numbers; of a reference the number is its name.  The options of plugins *)
(* (Plugins) are resolved the same way, with no ceilings.                  *)
(***************************************************************************)
EXTENDS Preferences, Plugins, Integers

CONSTANTS SettingsCatalog,   \* descriptor catalogs the settings may be read under
          NoCell             \* no ceiling

Authority == {"deployment", "policy"}
Actors == {"personal", "project"}
SettingScope == Authority \cup Actors

\* validate_settings_descriptor: the scopes are in a total order with every authority
\* above every actor, a setting has one of them, and a ceiling is a setting of a scope
\* strictly above that of the one it bounds.
CatalogSound(c) ==
    /\ \A s, t \in SettingScope : c.rank[s] = c.rank[t] => s = t
    /\ \A a \in Authority, b \in Actors : c.rank[a] < c.rank[b]
    /\ \A x \in Cell :
          /\ c.scope[x] \in SettingScope
          /\ c.ceiling[x] # NoCell =>
                c.ceiling[x] \in Cell /\ c.rank[c.scope[c.ceiling[x]]] < c.rank[c.scope[x]]

\* A setting is stored in the one scope that owns it; actors write their own scopes.
ASSUME SettingsAssumption ==
    /\ Value \subseteq Int /\ NoCell \notin Cell
    /\ \A c \in SettingsCatalog : \A x \in Cell : x \in Open <=> c.scope[x] \in Actors

SoundCatalogs == {c \in SettingsCatalog : CatalogSound(c)}

\* owned_values, merged over some scopes: a cell outside them counts as unset.
View(c, scopes) ==
    [x \in Cell |-> IF c.scope[x] \in scopes THEN pref[x].value ELSE NoValue]

Inherited(view, x) == IF view[x] = NoValue THEN Default ELSE view[x]

\* A reference that is not live gives way to the default, or to nothing.
Repaired(c, view, x, live) ==
    LET v == Inherited(view, x) IN
    IF c.type[x] = "int" \/ v \in live THEN v
    ELSE IF Default \in live THEN Default ELSE NoValue

\* resolve_effective_value: a number above the number of its ceiling is held down to it.
Effective(c, view, x, live) ==
    LET v == Repaired(c, view, x, live)
        b == c.ceiling[x]
    IN IF /\ b # NoCell /\ c.type[x] = "int" /\ c.type[b] = "int"
          /\ v > Repaired(c, view, b, live)
       THEN Repaired(c, view, b, live) ELSE v

\* The answer of GET, and of a reset of the one setting.
Served(c, x, live) == Effective(c, View(c, SettingScope), x, live)
AfterReset(c, x, live) == Effective(c, View(c, Authority \cup {c.scope[x]}), x, live)

Unbounded(c, x) == c.ceiling[x] = NoCell

----------------------------------------------------------------------------
\* Whatever tabs, imports and approved policies have left in the store, and whichever
\* references are live: a number served is within the ceiling served, a reference served
\* is live, what needs neither is served as it is stored; and a reset answers what GET
\* answers (preference_store.py:251-262), as long as ceilings are authority-owned.  A
\* ceiling under a ceiling is outside: it is compared before it is itself held down.
SettingsFit ==
    \A c \in SoundCatalogs, live \in SUBSET Value, x \in Cell :
        LET served == Served(c, x, live) IN
        /\ c.type[x] = "ref" => served \in live \cup {NoValue}
        /\ \A b \in Cell \ {x} :
              c.ceiling[x] = b /\ c.type[x] = "int" /\ c.type[b] = "int" /\ Unbounded(c, b) =>
                served <= Served(c, b, live)
        /\ /\ pref[x].value # NoValue
           /\ Unbounded(c, x) /\ (c.type[x] = "int" \/ pref[x].value \in live)
           => served = pref[x].value
        /\ (\A y \in Cell : Unbounded(c, y) \/ c.scope[c.ceiling[y]] \in Authority) =>
              served = AfterReset(c, x, live)

\* What is served as effective fits what is declared now: settings and plugin options.
EffectiveValuesFit == SettingsFit /\ OptionsFit
============================================================================
