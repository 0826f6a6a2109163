SPECIFICATION FairSpec
CONSTANTS
    l1 = l1
    l2 = l2
    c1 = c1
    c2 = c2
    Absent = Absent
    Lines <- MCLine
    Clients <- MCClient
    MaxRuns = 2
    MaxRetries = 1
    MaxRestarts = 1
    HardTimeouts = TRUE
    MaxFaults = 0
PROPERTIES
    EveryRunEnds
    EveryLockIsReleased
