SPECIFICATION Spec
CONSTANTS
    l1 = l1
    l2 = l2
    c1 = c1
    c2 = c2
    Absent = Absent
    Lines <- MCLines
    Clients <- MCClients
    MaxRuns = 2
    MaxRetries = 1
    MaxRestarts = 1
    HardTimeouts = FALSE
    MaxFaults = 1
SYMMETRY Symmetric
INVARIANTS
    OneSummaryPerRun
    ActiveRunHoldsLock
PROPERTY ImplementsContract
CHECK_DEADLOCK FALSE
