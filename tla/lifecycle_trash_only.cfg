SPECIFICATION Spec
CONSTANTS
    f1 = f1
    f2 = f2
    u1 = u1
    u2 = u2
    c1 = c1
    Sheets <- OneSheet
    Archived <- OneSheet
    Users <- TwoUsers
    Crons <- OneCron
    Retention = 1
    AutoDelete = TRUE
    MaxTime = 1
    MaxRequests = 2
    MaxFaults = 0
PROPERTIES OnlyTrashDeleted
SYMMETRY UserSymmetry
CHECK_DEADLOCK FALSE
