CONSTANTS
    Threads = {0, 1, 2}
    IntMod = 2
    Scenes <- GrowScenes
    WantedChunks = 4
    ChunksPerThread = 2
SPECIFICATION PoolSpec
INVARIANTS ResetIsAlone
