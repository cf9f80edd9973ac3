SPECIFICATION FairSpec
CONSTANTS
  Run = {r1, r2}
  Domain = {d1, d2}
  Concurrency = {0, 1, 2}
INVARIANT StopHolds
PROPERTIES ProgressInOrder ImplementsPool RunsReturn StopDrains
