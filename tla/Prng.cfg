CONSTANTS
    CacheItems = 2
    WordBytes = 2
    N = 4
    M = 2
    Requests = {1, 3, 4}
    MaxGiven = 7
    MaxWords = 11
    MaxHandles = 2
    MaxSeeds = 2
SPECIFICATION RandomSpec
INVARIANTS FreshBytes InRecurrence NoDeviceLeft
CHECK_DEADLOCK FALSE
