CONSTANTS
    Capacity = 3
    Files = {"a"}
    Levels = {"info", "debug"}
    Prefixes = {TRUE}
    MaxAdds = 3
    MaxOps = 2
SPECIFICATION Spec

PROPERTIES PauseFlushes
CHECK_DEADLOCK FALSE
