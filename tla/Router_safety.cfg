SPECIFICATION Spec
CONSTANTS
  fa = fa fb = fb ta = ta tb = tb tc = tc
  Entries <- MCEntries
  Value = {0, 1}
  ZERO = 0
  MAX_ROUTES = 3
  Capacity = 1
  Wrap = 4
  MaxPass = 1
INVARIANTS
  NewestIsPublished
PROPERTIES
  IntervalNearlyKept
