CONSTANTS
    Threads = {0, 1, 2}
    IntMod = 2
    Scenes <- SteadyScenes
    WantedChunks = 4
    ChunksPerThread = 2
SPECIFICATION PoolSpec
INVARIANTS InStep ComputedOnReturn ResetIsAlone
PROPERTIES CallsReturn PoolIsRendezvous
