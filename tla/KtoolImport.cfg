SPECIFICATION Spec
CONSTANTS
  InitialTrees <- MCTrees
  Commands <- MCCommands
  MetaName <- MCMetaName
  HiddenNames <- MCHidden
  Faults = {}
  MaxCommands = 1
INVARIANT ImportHoldsAll
CHECK_DEADLOCK FALSE
