CONSTANTS
    Capacity = 3
    Files = {"a"}
    Levels = {"info", "debug"}
    Prefixes = {TRUE}
    MaxAdds = 4
    MaxOps = 2
SPECIFICATION Spec
INVARIANTS PrintedInOrder PausedIsEmpty
PROPERTIES Drained
CHECK_DEADLOCK FALSE
