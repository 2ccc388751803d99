SPECIFICATION FairSpec
CONSTANTS
    s1 = s1
    s2 = s2
    u1 = u1
    u2 = u2
    x1 = x1
    ph1 = ph1
    ph2 = ph2
    a1 = a1
    a2 = a2
    None = None
    Sheets <- OneSheet
    Existing <- OneSheet
    Procs <- TwoUsers
    ExtIds = {x1}
    Phases = {ph1, ph2}
    Attrs = {a1, a2}
    Mandatory <- Mandatory1
    PatchLists <- RowPatches
    Interleaved = TRUE
    MaxCalls = 3
    MaxFaults = 1
INVARIANTS CompletionCurrent
PROPERTIES RevCountsWrites CallsReturn
CHECK_DEADLOCK FALSE
