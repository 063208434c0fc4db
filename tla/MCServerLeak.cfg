SPECIFICATION Spec
CONSTANTS
  h1 = h1
  h2 = h2
  h3 = h3
  NoId = NoId
  AnySlot = AnySlot
  Handlers = {h1, h2, h3}
  Scenarios <- LeakScenarios
  NSlots = 1
  NPredict = 1
INVARIANT ResultsHaveWaiters
