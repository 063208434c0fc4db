SPECIFICATION Spec
CONSTANTS
  NSlots = 2
  NCtx = 5
  NBatch = 3
  NPredict = 3
  Sampled = {2}
  MaxRequests = 3
  Settings <- EarlySettings
INVARIANT NeverAborts
CHECK_DEADLOCK FALSE
