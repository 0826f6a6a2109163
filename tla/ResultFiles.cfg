SPECIFICATION FairSpec
CONSTANTS
    Clients = {c1}
    Worker = worker
    Maint = maint
    Absent = Absent
    Keep = Keep
    MaxFiles = 4
    MaxExpired = 2
    MaxFaults = 1
INVARIANTS
    OneCurrentResult
    MissingFileIsExpired
    ExpiredMeansDeleted
    BrokenDownloadIsExpired
PROPERTIES
    ExpiredIsWithdrawn
CHECK_DEADLOCK FALSE
