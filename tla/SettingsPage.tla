---------------------------- MODULE SettingsPage ----------------------------
(***************************************************************************)
(* The settings: the object the page edits (settings-store.ts, settings-   *)
(* base.ts, features/settings/index.ts) and the file it is saved to        *)
(* (commands/settings.rs, bridge/settings.ts).                             *)
(*                                                                         *)
(* A value is set on the page and then saved. saveSettings is not awaited, *)
(* and a save writes the file in place on a thread of its own: it opens    *)
(* and empties the file, then writes the text the settings had when it was *)
(* sent.  Over a longer text that another save has written meanwhile, it   *)
(* leaves the end of that.  A save that fails is not sent again, and the   *)
(* page keeps the value.                                                   *)
(*                                                                         *)
(* Abstracted: the settings are the keys with a list of options, in their  *)
(* groups; the text of the settings is the settings, so the lengths of two *)
(* texts are left open.  Reading the file is one step.  #deleteConfig is   *)
(* left out: sanitize_name refuses the path it gives.  So is the event     *)
(* settings:reloaded, which nothing emits.                                 *)
(***************************************************************************)
EXTENDS Sift, FiniteSets

CONSTANTS
  PathOrder,  \* the paths of enumOptions, in the order of the inputs: group and key
  Option,     \* the options of every key
  Default,    \* the default of every key
  Invalid,    \* a value that is no option
  Importable, \* what config_import is given: some keys of some groups
  MaxSaves,   \* bound: saves and imports under way
  MaxLoads    \* bound: loads under way

Paths == {PathOrder[i] : i \in DOMAIN PathOrder}
Groups == {path.group : path \in Paths}
KeysOf(group) == {path.key : path \in {q \in Paths : q.group = group}}

\* Settings as JSON has them: a group or a key that is not there is not in the domain.
AnyGroup == UNION {[K -> Option \cup {Invalid}] : K \in SUBSET {path.key : path \in Paths}}
AnySettings == UNION {[G -> AnyGroup] : G \in SUBSET Groups}

ASSUME SettingsAssumption ==
  /\ PathOrder \in Seq(Paths)
  /\ Default \in Option /\ Invalid \notin Option
  /\ Importable \subseteq AnySettings
  /\ {MaxSaves, MaxLoads} \subseteq Nat

VARIABLES
  file,    \* settings.json: its state, and the settings it holds when that is whole
  page,    \* settings
  saves,   \* saves and imports under way, numbered: what they write, and whether the
           \* file is open
  loads,   \* calls of loadSettings under way, numbered: the settings they have read
  crossed  \* history: since something got under way, with nothing else under way, a
           \* save met another or a load, or one failed

settingsVars == <<file, page, saves, loads, crossed>>

NoSettings == [group \in {} |-> {}]
Defaults == [group \in Groups |-> [key \in KeysOf(group) |-> Default]]
Whole(map) == [state |-> "whole", map |-> map]
Broken(state) == [state |-> state, map |-> NoSettings]

\* setSettings: Object.assign takes a group as a whole.
Over(map, new) ==
  [group \in DOMAIN map \cup DOMAIN new |->
     IF group \in DOMAIN new THEN new[group] ELSE map[group]]

\* setValue.
SetValue(map, path, value) ==
  [map EXCEPT ![path.group] =
     [key \in DOMAIN @ \cup {path.key} |-> IF key = path.key THEN value ELSE @[key]]]

\* The least number nobody has.
Unused(under) ==
  CHOOSE n \in 1..(Cardinality(under) + 1) :
    (\A w \in under : w.nr # n) /\ \A m \in 1..(n - 1) : \E w \in under : w.nr = m
NewLoad(under, starts) ==
  [nr |-> Unused(under), starts |-> starts, at |-> "asked", map |-> NoSettings]

SettingsInit ==
  /\ file \in {Broken("missing")} \cup {Whole(m) : m \in Importable}
  /\ page = Defaults
  /\ saves = {}
  /\ loads = {NewLoad({}, TRUE)}
  /\ crossed = FALSE

\* settings_save of the settings, or config_import.
AddSave(under, map, imports) ==
  under \cup {[nr |-> Unused(under), map |-> map, imports |-> imports, open |-> FALSE]}

\* One more save is sent, up to its await.
Send(map, imports) ==
  /\ Cardinality(saves) < MaxSaves
  /\ saves' = AddSave(saves, map, imports)
  /\ crossed' = (saves # {} \/ loads # {})
  /\ UNCHANGED <<file, loads>>

\* saveEntry: a key is set, from its input or by its reset button, and saved.
SaveEntry(path, v) ==
  /\ page' = SetValue(page, path, v)
  /\ Send(page', FALSE)

RestoreDefaults ==
  /\ page' = Over(page, Defaults)
  /\ Send(page', FALSE)

SaveConfig == Send(page, FALSE) /\ UNCHANGED page

\* configImport, of a file the user has chosen.
ImportConfig(map) == Send(map, TRUE) /\ UNCHANGED page

\* tokio::fs::write opens the file, then writes; when it has written the
\* imported text the page loads the settings.
OpenFile(w) ==
  /\ ~ w.open
  /\ file' = Broken("empty")
  /\ saves' = (saves \ {w}) \cup {[w EXCEPT !.open = TRUE]}
  /\ UNCHANGED <<page, loads, crossed>>

WriteFile(w) ==
  /\ w.open
  /\ \/ file' = Whole(w.map)
     \/ /\ file.state = "garbled" \/ (file.state = "whole" /\ file.map # w.map)
        /\ file' = Broken("garbled")
  /\ saves' = saves \ {w}
  /\ IF w.imports
     THEN /\ Cardinality(loads) < MaxLoads
          /\ loads' = loads \cup {NewLoad(loads, FALSE)}
          /\ crossed' = (crossed \/ saves' # {})
     ELSE UNCHANGED <<loads, crossed>>
  /\ UNCHANGED page

\* A save or an import fails, before the file is open or after some of the text:
\* the page keeps what it has, and does not load after an import.
SaveFails(w) ==
  /\ \/ UNCHANGED file
     \/ w.open /\ file' = Broken("garbled")
  /\ saves' = saves \ {w}
  /\ crossed' = TRUE
  /\ UNCHANGED <<page, loads>>

(***************************************************************************)
(* loadSettings.  What cannot be parsed counts as {}, and what was parsed  *)
(* is assigned over the settings as it is; populateInputs then repairs     *)
(* each key that has no valid option and saves, one save for each.  When   *)
(* the application starts it waits for the translations between the two.   *)
(***************************************************************************)
LoadSettings ==
  /\ Cardinality(loads) < MaxLoads
  /\ loads' = loads \cup {NewLoad(loads, FALSE)}
  /\ crossed' = (saves # {} \/ (loads # {} /\ crossed))
  /\ UNCHANGED <<file, page, saves>>

ReadFile(l) ==
  /\ l.at = "asked"
  /\ loads' = (loads \ {l}) \cup {[l EXCEPT !.at = "read", !.map = file.map]}
  /\ UNCHANGED <<file, page, saves, crossed>>

\* Nothing is assigned and, when the application starts, nothing populated.
LoadFails(l) ==
  /\ l.at = "asked"
  /\ loads' = loads \ {l}
  /\ crossed' = TRUE
  /\ UNCHANGED <<file, page, saves>>

AssignLoaded(l) ==
  /\ l.starts /\ l.at = "read"
  /\ page' = Over(page, l.map)
  /\ loads' = (loads \ {l}) \cup {[l EXCEPT !.at = "assigned"]}
  /\ UNCHANGED <<file, saves, crossed>>

HasOption(map, path) ==
  /\ path.key \in DOMAIN map[path.group]
  /\ map[path.group][path.key] \in Option
Broke(map) == Sift(PathOrder, {i \in DOMAIN PathOrder : ~ HasOption(map, PathOrder[i])})
Repaired(map, paths) ==
  [group \in DOMAIN map |->
     LET mended == {path.key : path \in {q \in paths : q.group = group}}
     IN [key \in DOMAIN map[group] \cup mended |->
           IF key \in mended THEN Default ELSE map[group][key]]]

\* One save for each key, of the settings as they are then.
FirstPaths(paths, n) == {paths[i] : i \in 1..n}
SendRepaired(under, map, paths) == AddSave(under, Repaired(map, paths), FALSE)
SentFor(under, map, broke) ==
  LET sent[i \in 0..Len(broke)] ==
        IF i = 0 THEN under ELSE SendRepaired(sent[i - 1], map, FirstPaths(broke, i))
  IN sent

\* What populateInputs finds: where the application does not start, no task runs
\* between setSettings and it.
Loaded(l) == IF l.starts THEN page ELSE Over(page, l.map)
CanPopulate(l) == l.at = IF l.starts THEN "assigned" ELSE "read"

\* What is repaired is not saved.
PopulateUnsaved(l) ==
  /\ CanPopulate(l)
  /\ LET broke == Broke(Loaded(l)) IN page' = Repaired(Loaded(l), FirstPaths(broke, Len(broke)))
  /\ loads' = loads \ {l}
  /\ UNCHANGED <<file, saves, crossed>>

Populate(l) ==
  /\ CanPopulate(l)
  /\ LET broke == Broke(Loaded(l))
     IN /\ page' = Repaired(Loaded(l), FirstPaths(broke, Len(broke)))
        /\ saves' = SentFor(saves, Loaded(l), broke)[Len(broke)]
        /\ Cardinality(saves') <= MaxSaves
        /\ crossed' = (crossed \/ Cardinality(saves') > 1
                         \/ (broke # <<>> /\ Cardinality(loads) > 1))
  /\ loads' = loads \ {l}
  /\ UNCHANGED file

\* The application ends, in the middle of its saves, and starts anew.
Restart ==
  /\ page' = Defaults
  /\ saves' = {}
  /\ loads' = {NewLoad({}, TRUE)}
  /\ crossed' = FALSE
  /\ UNCHANGED file

\* #reloadApp: the page starts anew, and nobody waits for its imports any more.
ReloadApp ==
  /\ page' = Defaults
  /\ saves' = {[w EXCEPT !.imports = FALSE] : w \in saves}
  /\ loads' = {NewLoad({}, TRUE)}
  /\ crossed' = (saves # {})
  /\ UNCHANGED file

SettingsNext ==
  \/ \E path \in Paths, v \in Option : SaveEntry(path, v)
  \/ RestoreDefaults
  \/ SaveConfig
  \/ \E map \in Importable : ImportConfig(map)
  \/ \E w \in saves : OpenFile(w) \/ WriteFile(w) \/ SaveFails(w)
  \/ LoadSettings
  \/ \E l \in loads : ReadFile(l) \/ LoadFails(l) \/ AssignLoaded(l) \/ Populate(l)
  \/ Restart
  \/ ReloadApp

SettingsSpec == SettingsInit /\ [][SettingsNext]_settingsVars

-----------------------------------------------------------------------------
(* Property *)

\* Once saves and loads are done, the groups the file names are what the page has,
\* key for key, also after imports of some keys, invalid values and a start in the
\* middle of a write: unless, since the first of them, one met another or failed,
\* which the next one that is alone and succeeds makes good.  And the page is left
\* with a valid option for every key, whatever was loaded.
FileSaysWhatPageShows ==
  /\ saves = {} /\ loads = {} /\ ~ crossed =>
       \A group \in DOMAIN file.map : file.map[group] = page[group]
  /\ loads = {} => \A path \in Paths : HasOption(page, path)
=============================================================================
