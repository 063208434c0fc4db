SPECIFICATION Spec
VIEW view
CONSTANTS
  Cells = {0, 1}
  Seqs = {0, 1}
  MaxPos = 2
  Instances <- CopyTwiceInstances
  Garbage = Garbage
INVARIANT CellsExact
CHECK_DEADLOCK FALSE
