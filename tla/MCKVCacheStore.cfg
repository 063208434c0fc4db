SPECIFICATION Spec
VIEW view
CONSTANTS
  Cells = {0, 1, 2}
  Seqs = {0, 1}
  MaxPos = 2
  Instances <- StoreInstances
  Garbage = Garbage
INVARIANT DecodedIsSettled
PROPERTY StoreRefined
CHECK_DEADLOCK FALSE
