SPECIFICATION Spec
CONSTANTS
  NSlots = 2
  NCtx = 5
  NBatch = 3
  NPredict = 3
  Sampled = {2}
  MaxRequests = 3
  Settings <- LongSettings
INVARIANT NeverAborts
CHECK_DEADLOCK FALSE
