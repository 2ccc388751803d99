SPECIFICATION FairSpec
CONSTANTS
    f1 = f1
    f2 = f2
    u1 = u1
    u2 = u2
    c1 = c1
    Sheets <- TwoSheets
    Archived <- TwoSheets
    Users <- TwoUsers
    Crons <- OneCron
    Retention = 1
    AutoDelete = TRUE
    MaxTime = 1
    MaxRequests = 2
    MaxFaults = 1
INVARIANTS TrashConsistent Announced
PROPERTIES ImplementsContract CallsReturn ExpiredLeaves
CHECK_DEADLOCK FALSE
