SPECIFICATION Spec
VIEW view
CONSTANTS
  Cells = {0, 1, 2, 3}
  Seqs = {0, 1}
  MaxPos = 9
  Instances <- CellInstances
  Garbage = Garbage
INVARIANTS CellsExact NoHoles
PROPERTY DecodeKeepsWindow
CHECK_DEADLOCK FALSE
