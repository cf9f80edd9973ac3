SPECIFICATION Spec
CONSTANTS
  Schedules <- MCSchedules
  MaxFailures = {1, 2}
  Creation <- MCCreation
  Delay <- MCDelay
  Horizon <- MCHorizon
  FailureBound = 2
INVARIANTS ScheduleKept
