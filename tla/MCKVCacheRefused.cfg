SPECIFICATION Spec
VIEW view
CONSTANTS
  Cells = {0, 1, 2, 3}
  Seqs = {0}
  MaxPos = 9
  Instances <- RefusedInstances
  Garbage = Garbage
PROPERTY RefusedLeavesNoTrace
CHECK_DEADLOCK FALSE
