SPECIFICATION SessionSpec
CONSTANTS
  Run = {r1, r2}
  Domain = {d1}
  Concurrency = {1}
INVARIANT ButtonTellsTruth
PROPERTY StopSaveEndsRun
CHECK_DEADLOCK FALSE
