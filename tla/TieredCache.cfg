SPECIFICATION Spec
CONSTANTS
  Thread = {t1, t2}
  Key = {k1, k2}
  Capacity = 1
  MaxEntries = 2
INVARIANTS TiersAgree SetIsDurable
