SPECIFICATION Spec
CONSTANTS
  InitialTrees <- MCTrees
  Commands <- MCCommands
  MetaName <- MCMetaName
  HiddenNames <- MCHidden
  Faults = {"kill", "create", "open", "chdir", "read", "append", "close", "init", "write"}
  MaxCommands = 2
INVARIANTS Guarded ImportOutcome RepackOutcome ExportOutcome
CHECK_DEADLOCK FALSE
