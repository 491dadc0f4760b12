---------------------------- MODULE Preferences ----------------------------
(***************************************************************************)
(* The scoped preference store (src/workbench/preference_store.py) with    *)
(* the browser tabs that read it, write it, reset it and import into it    *)
(* (src/workbench/api.py, src/workbench/configuration_transfer.py).  Each  *)
(* mutation compares versions and writes under the store's lock.  A reset  *)
(* removes the record, and with it the version.                            *)
(***************************************************************************)
EXTENDS Naturals

CONSTANTS Cell,          \* settings, each in the one namespace it is stored in
          Open,          \* the cells an actor writes directly (personal, project)
          Value,
          Default,       \* the default the descriptors declare
          NoValue,       \* what an unset cell holds, or an import leaves out
          Tab,           \* the actor's open tabs
          MaxEdits       \* bound: changes of one cell

ASSUME PreferencesAssumption ==
    /\ Open \subseteq Cell
    /\ Default \in Value
    /\ NoValue \notin Value
    /\ MaxEdits \in Nat

VARIABLES pref,          \* the stored value and version of each cell
          history,       \* how often each cell was changed, and reset
          seen           \* the version and the history each tab last saw

prefVars == <<pref, history, seen>>

Unset == [value |-> NoValue, version |-> 0]
PrefRecord == [value : Value \cup {NoValue}, version : Nat]
History == [edits : Nat, resets : Nat]

PreferencesTypeOK ==
    /\ pref \in [Cell -> PrefRecord]
    /\ \A c \in Cell : pref[c].version = 0 <=> pref[c] = Unset
    /\ history \in [Cell -> History]
    /\ seen \in [Tab -> [Cell -> [version : Nat, at : History]]]

PreferencesInit ==
    /\ pref = [c \in Cell |-> Unset]
    /\ history = [c \in Cell |-> [edits |-> 0, resets |-> 0]]
    /\ seen = [t \in Tab |-> [c \in Cell |-> [version |-> 0, at |-> [edits |-> 0, resets |-> 0]]]]

----------------------------------------------------------------------------
\* Mutant: the version a writer names is not compared.
MutantVersionMatches(c, expected) == TRUE

\* The optimistic check: the stored version, or 0 where nothing is stored.
VersionMatches(c, expected) == pref[c].version = expected

\* Mutant: a reset writes the default back, and forgets the version.
MutantChanged(c, kind, v) ==
    IF kind = "set" THEN [value |-> v, version |-> pref[c].version + 1]
    ELSE [value |-> Default, version |-> 0]

\* A cell after a set, or after a reset; a reset of an unset cell changes nothing.
Changed(c, kind, v) ==
    IF kind = "set" THEN [value |-> v, version |-> pref[c].version + 1] ELSE Unset

Recorded(c, kind) ==
    IF kind = "set" THEN [history[c] EXCEPT !.edits = @ + 1]
    ELSE IF pref[c] = Unset THEN history[c]
    ELSE [edits |-> history[c].edits + 1, resets |-> history[c].resets + 1]

\* One compare-and-write: set_preference, reset_preference, and their
\* counterparts for authority values.
Commits(c, kind, v, expected) ==
    /\ VersionMatches(c, expected)
    /\ history[c].edits < MaxEdits
    /\ pref' = [pref EXCEPT ![c] = Changed(c, kind, v)]
    /\ history' = [history EXCEPT ![c] = Recorded(c, kind)]

\* apply_batch: every version is checked before anything is written.
CommitsBatch(C, kind, v, expected) ==
    /\ \A c \in C : VersionMatches(c, expected[c]) /\ history[c].edits < MaxEdits
    /\ pref' = [c \in Cell |-> IF c \in C THEN Changed(c, kind[c], v[c]) ELSE pref[c]]
    /\ history' = [c \in Cell |-> IF c \in C THEN Recorded(c, kind[c]) ELSE history[c]]

----------------------------------------------------------------------------
\* What a tab knows of the cells C once it has read them.
Sight(C, t, p, h) ==
    [seen EXCEPT ![t] = [c \in Cell |-> IF c \in C THEN [version |-> p[c].version, at |-> h[c]]
                                        ELSE @[c]]]

\* A tab reads one preference: its record, or the not-found of an unset one.
TabReads(t, c) ==
    /\ seen' = Sight({c}, t, pref, history)
    /\ UNCHANGED <<pref, history>>

\* PUT of one preference at the version the tab saw; the answer is the new record.
TabSets(t, c, v) ==
    /\ Commits(c, "set", v, seen[t][c].version)
    /\ seen' = Sight({c}, t, pref', history')

TabResets(t, c) ==
    /\ Commits(c, "reset", NoValue, seen[t][c].version)
    /\ seen' = Sight({c}, t, pref', history')

\* import_preview and reset_preview: the versions of a set of cells, read together
\* by the tab before it decides.
TabPreviews(t) ==
    /\ seen' = Sight(Open, t, pref, history)
    /\ UNCHANGED <<pref, history>>

\* What an import does to a cell: a value equal to the effective one is no
\* operation, the default resets an override, anything else is set.
ImportKind(c, v) ==
    IF v \in {NoValue, pref[c].value} \/ (v = Default /\ pref[c] = Unset) THEN "none"
    ELSE IF v = Default THEN "reset" ELSE "set"

\* import_apply: the plan is made again, the versions are the previewed ones.
TabImports(t, v) ==
    LET kind == [c \in Open |-> ImportKind(c, v[c])]
        C == {c \in Open : kind[c] # "none"}
    IN /\ C # {}
       /\ CommitsBatch(C, kind, v, [c \in Open |-> seen[t][c].version])
       /\ seen' = Sight(C, t, pref', history')

\* The versions a scoped reset names: the previewed one of a cell the preview
\* listed, the present one of a cell that was unset then.
ResetVersion(t, c) == IF seen[t][c].version > 0 THEN seen[t][c].version ELSE pref[c].version

\* reset_apply: every override of the namespace that exists now is removed.
TabResetsScope(t) ==
    LET C == {c \in Open : pref[c] # Unset} IN
    /\ C # {}
    /\ CommitsBatch(C, [c \in C |-> "reset"], [c \in C |-> NoValue],
                    [c \in C |-> ResetVersion(t, c)])
    /\ seen' = Sight(C, t, pref', history')

TabStep ==
    \E t \in Tab :
        \/ TabPreviews(t)
        \/ TabResetsScope(t)
        \/ \E v \in [Open -> Value \cup {NoValue}] : TabImports(t, v)
        \/ \E c \in Open : \/ TabReads(t, c)
                           \/ TabResets(t, c)
                           \/ \E v \in Value : TabSets(t, c, v)

----------------------------------------------------------------------------
\* A tab that changes a cell others have changed since it last looked gets through
\* only where a reset in between took the version back: of two writers of one
\* version, one is refused.  A scoped reset is the exception the code makes: it also
\* removes an override the tab saw unset (preference_store.py:17-24, 275-315).
SavesSeeLatest ==
    [][\A t \in Tab, c \in Cell :
          history'[c] # history[c] /\ seen'[t][c] # seen[t][c] =>
              \/ seen[t][c].at = history[c]
              \/ history[c].resets # seen[t][c].at.resets
              \/ seen[t][c].version = 0 /\ pref'[c] = Unset]_prefVars
============================================================================
