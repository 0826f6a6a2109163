SPECIFICATION Spec
CONSTANTS
    c1 = c1
    c2 = c2
    Clients <- MCClients
    Names <- MCNames
    Passwords <- MCPasswords
    Edits <- MCEdits
    NewUsers <- MCNewUsers
    InitialTables <- MCTables
    Absent = Absent
    MaxUsers = 2
    MaxTokens = 1
    MaxFaults = 1
SYMMETRY Symmetric
PROPERTIES
    ActorWasEntitled
    OnlyStaleCopiesOverwrite
    TwinNamesNeedARace
CHECK_DEADLOCK FALSE
