SPECIFICATION StatsSpec
CONSTANT MaxStarts = 2
INVARIANT OneListener
CHECK_DEADLOCK FALSE
