SPECIFICATION Spec
CONSTANTS
    l1 = l1
    l2 = l2
    c1 = c1
    c2 = c2
    Absent = Absent
    Lines <- MCLine
    Clients <- MCClient
    MaxRuns = 1
    MaxRetries = 0
    MaxRestarts = 0
    HardTimeouts = TRUE
    MaxFaults = 0
PROPERTY FinalStatusIsFinal
CHECK_DEADLOCK FALSE
