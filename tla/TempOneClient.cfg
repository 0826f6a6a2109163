SPECIFICATION FairSpec
CONSTANTS
    c1 = c1
    c2 = c2
    o1 = o1
    o2 = o2
    Clients <- MCClient
    Purger = Purger
    Owners <- MCOwners
    Absent = Absent
    Keep = Keep
    Module = "wb"
    Sizes = {1}
    MaxTotal = 2
    MaxPromo = 2
    ReplaceAnything = FALSE
    MaxFiles = 3
    MaxExpired = 2
    MaxFaults = 1
INVARIANTS
    TypeOK
    OneFilePerSlot
    FilesMatchRows
PROPERTIES
    ImplementsTempSet
    ExpiredRowsDisappear
CHECK_DEADLOCK FALSE
