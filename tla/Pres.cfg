CONSTANTS
  a = a
  b = b
  Names <- MCNames
  Lens = {0, 3}
  AppendLens = {1, 2, 3}
  Iobuf = 2
  MaxEntries = 2
  MaxFile <- MCMaxFile
  Faults <- ReportedFaults
  OverwriteDamaged = FALSE
SPECIFICATION Spec
INVARIANTS TypeOK BackupCurrent Recoverable AckedStored ClosedReadable
PROPERTY StoreSpec
CHECK_DEADLOCK FALSE
SYMMETRY NameSymmetry
