SPECIFICATION Spec
CONSTANTS
  Thread = {t1, t2}
  Key = {k1}
  Capacity = 1
  MaxEntries = 2
INVARIANTS CompletedWriteWins
