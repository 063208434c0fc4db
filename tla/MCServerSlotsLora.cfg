SPECIFICATION Spec
CONSTANTS
  NSlots = 1
  NCtx = 5
  NBatch = 3
  NPredict = 3
  Sampled = {2}
  MaxRequests = 5
  Settings <- LoraSettings
INVARIANT PromptInMemory
CHECK_DEADLOCK FALSE
