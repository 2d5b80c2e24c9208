CONSTANTS
  a = a
  b = b
  Names <- MCNames
  Lens = {3}
  AppendLens = {1, 2}
  Iobuf = 2
  MaxEntries = 2
  MaxFile <- MCMaxFile
  Faults = {"write", "read", "abandon", "crash"}
  OverwriteDamaged = TRUE
SPECIFICATION Spec
INVARIANTS Recoverable CommittedExports
CHECK_DEADLOCK FALSE
SYMMETRY NameSymmetry
