SPECIFICATION Spec
CONSTANTS
    MaxEvents = 3
    Freqs <- MCFreqs
    PayloadLen <- MCPayloadLen
    LayersOf <- MCLayersOf
    HeaderSize = 1
    BlockAlign = 2
    Budgets <- MCBudgets
    MaxRetries = 1
    DropQueueSize = 2
    DefaultTtl = 3
    NsMod = 8
    Scenes <- MCScenes
INVARIANTS OneHome PayloadIsIngested RetriesExact TiersExact QueuesBounded
           NoLayerStarves
PROPERTIES AppendOnly EventsSettle
