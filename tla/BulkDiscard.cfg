SPECIFICATION SessionSpec
CONSTANTS
  Run = {r1, r2}
  Domain = {d1}
  Concurrency = {1}
PROPERTIES DiscardedRunStops
CHECK_DEADLOCK FALSE
