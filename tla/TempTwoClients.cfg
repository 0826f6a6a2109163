SPECIFICATION Spec
CONSTANTS
    c1 = c1
    c2 = c2
    o1 = o1
    o2 = o2
    Clients <- MCClients
    Purger = Purger
    Owners <- MCOwners
    Absent = Absent
    Keep = Keep
    Module = "wb"
    Sizes = {1}
    MaxTotal = 4
    MaxPromo = 1
    ReplaceAnything = TRUE
    MaxFiles = 3
    MaxExpired = 2
    MaxFaults = 0
SYMMETRY Symmetric
INVARIANTS
    PromoOvershoot
    NoWaitCycle
CHECK_DEADLOCK FALSE
