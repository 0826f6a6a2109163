SPECIFICATION Spec
CONSTANTS
    c1 = c1
    c2 = c2
    root = root
    lead = lead
    Clients <- MCClients
    Users <- MCUsers
    Admins <- MCAdmins
    StoreNames = {"first", "second"}
    Settings = {1, 2}
    InitialStores <- MCStores
    InitialGrants <- MCGrants
    Absent = Absent
    MaxStores = 2
    MaxGrants = 2
    MaxRequests = 4
    MaxFaults = 1
SYMMETRY Symmetric
INVARIANTS
    CreatorHasAccess
PROPERTIES
    OperationWasAllowed
    DuplicatesNeedARace
CHECK_DEADLOCK FALSE
