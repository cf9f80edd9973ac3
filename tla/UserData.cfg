SPECIFICATION UserSpec
CONSTANTS
  HistoryRow <- HistoryRows
  HistoryProfile = {"default", "work"}
  Switch <- Switches
  Search = {""}
  PageSize = 1
  Chosen = {"Available"}
  DaysBack = {1}
  HistoryDay = {0, 2}
  MaxRows = 2
  MaxFetches = 2
  MaxClears = 1
  PathOrder <- SettingPaths
  Option = {"a", "b"}
  Default = "a"
  Invalid = "x"
  Importable <- ImportableSettings
  MaxSaves = 2
  MaxLoads = 1
  Schedules <- MCSchedules
  MaxFailures = {1, 2}
  Creation <- MCCreation
  Delay <- MCDelay
  Horizon <- MCHorizon
  FailureBound = 2
INVARIANTS
  PageShowsWhatItAsks
  FileSaysWhatPageShows
  HeldIsNeverDue
  FailuresStopIt
  NextRunIsFirst
CHECK_DEADLOCK FALSE
