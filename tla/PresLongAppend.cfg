CONSTANTS
  a = a
  b = b
  Names <- MCNames
  Lens = {4}
  AppendLens = {4}
  Iobuf = 2
  MaxEntries = 1
  MaxFile = 13
  Faults = {}
  OverwriteDamaged = FALSE
SPECIFICATION Spec
INVARIANT CommittedExports
CHECK_DEADLOCK FALSE
SYMMETRY NameSymmetry
