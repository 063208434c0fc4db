SPECIFICATION PartsSpec
CONSTANTS
  Cells = {1, 2}
  Seqs = {a, b}
  MaxPos = 2
  MaxShift = 1
  Size = 5
INVARIANTS CellsTypeOK UsedIsExact CountsAreExact ShiftIsAnnounced
           InBounds FoundIsSlot NoneMeansNone ResultIsFirst
PROPERTY Terminates
CHECK_DEADLOCK FALSE
