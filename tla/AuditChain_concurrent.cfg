SPECIFICATION DistinctSpec
CONSTANTS
  Writers = {w1, w2}
  Unlocked = Unlocked
  Ids = {1, 2, 3}
  MaxTime = 3
INVARIANTS ChainVerifies
CHECK_DEADLOCK FALSE
