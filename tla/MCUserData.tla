----------------------------- MODULE MCUserData -----------------------------
(***************************************************************************)
(* The instance of what the application keeps for its user: the history    *)
(* page, the settings and a scheduled job.  The parts share no state, so   *)
(* each behaviour is one of a single part, the others standing still: TLC  *)
(* explores the parts side by side and not their product.                  *)
(***************************************************************************)
EXTENDS HistoryView, SettingsPage, MCScheduledJob

VARIABLE part

userVars == <<part, viewVars, settingsVars, vars>>

\* One kind of row, which the filter by status leaves out, so that every filter and
\* every change of profile or day makes the table smaller.
HistoryRows == {[domain |-> "a", status |-> "available"]}
Switches == {[from |-> "default", to |-> "work"]}

\* Two keys in one group, and files to import that leave one out, or have no option
\* for the other.
SettingPaths ==
  <<[group |-> "lookupProxy", key |-> "mode"], [group |-> "lookupProxy", key |-> "multimode"]>>
ImportableSettings ==
  {[lookupProxy |-> [mode |-> "b"]], [lookupProxy |-> [mode |-> "x"]]}

\* Only the part itself starts from each of its initial states.
UserInit ==
  /\ part \in {"history", "settings", "job"}
  /\ ViewInit
  /\ SettingsInit
  /\ part = "settings" \/ file = Broken("missing")
  /\ Init
  /\ part = "job" \/
       /\ schedule = CHOOSE s \in Schedules : TRUE
       /\ max_failures = CHOOSE m \in MaxFailures : TRUE
       /\ now = CHOOSE t \in Creation : TRUE

Of(name, others) == part = name /\ UNCHANGED <<part, others>>

History == Of("history", <<settingsVars, vars>>) /\ ViewNext
SettingsFile == Of("settings", <<viewVars, vars>>) /\ SettingsNext
JobLife == Of("job", <<viewVars, settingsVars>>) /\ Next

UserNext == History \/ SettingsFile \/ JobLife

UserSpec == UserInit /\ [][UserNext]_userVars
=============================================================================
