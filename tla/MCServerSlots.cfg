SPECIFICATION Spec
CONSTANTS
  NSlots = 2
  NCtx = 5
  NBatch = 3
  NPredict = 3
  Sampled = {2}
  MaxRequests = 4
  Settings <- PassSettings
INVARIANTS PromptInMemory BatchFollowsMemory
PROPERTIES ContextIsRequest WorkKeepsMemory RequestsEnd
CHECK_DEADLOCK FALSE
