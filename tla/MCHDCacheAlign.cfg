SPECIFICATION Spec
CONSTANTS
    MaxEvents = 2
    Freqs <- MCFreqs
    PayloadLen <- MCPayloadLen
    LayersOf <- MCLayersOf
    HeaderSize = 1
    BlockAlign = 2
    Budgets <- MCBudgets
    MaxRetries = 1
    DropQueueSize = 2
    DefaultTtl = 3
    NsMod = 8
    Scenes <- OnlyMishaps
INVARIANTS BlocksAligned
