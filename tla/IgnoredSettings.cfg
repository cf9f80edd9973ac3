SPECIFICATION AvailabilitySpec
CONSTANT MaxMarks = 2
INVARIANT RateLimitSettingCounts
CHECK_DEADLOCK FALSE
