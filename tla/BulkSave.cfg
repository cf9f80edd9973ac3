SPECIFICATION SessionSpec
CONSTANTS
  Run = {r1, r2}
  Domain = {d1}
  Concurrency = {1}
PROPERTIES SavedRunIsExported
CHECK_DEADLOCK FALSE
