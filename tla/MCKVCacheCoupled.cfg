SPECIFICATION Spec
VIEW view
CONSTANTS
  Cells = {0, 1}
  Seqs = {0, 1}
  MaxPos = 2
  Instances <- CoupledInstances
  Garbage = Garbage
PROPERTY StoreRefined
CHECK_DEADLOCK FALSE
