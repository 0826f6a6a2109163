SPECIFICATION Spec
CONSTANTS
    l1 = l1
    l2 = l2
    c1 = c1
    c2 = c2
    Absent = Absent
    Lines <- MCLine
    Clients <- MCClients
    MaxRuns = 2
    MaxRetries = 1
    MaxRestarts = 0
    HardTimeouts = TRUE
    MaxFaults = 1
SYMMETRY SymmetricClients
INVARIANTS
    TypeOK
    CreatesSerialised
    CreatorHoldsLock
    FinalRunHoldsNoLock
    FinalRunIsSummarised
    CompletedRunIsConsistent
    ValidatedBeforeCompleted
    LockHasOwner
CHECK_DEADLOCK FALSE
