CONSTANTS
  Names = {"x", "y"}
  MaxFd = 4
  MaxTemps = 3
  MaxPool = 2
  Faults = {"append", "chmod", "rename", "signal", "threads"}
SPECIFICATION Spec
INVARIANTS PoolMatches NoLeak
PROPERTY CommitExact
CHECK_DEADLOCK FALSE
