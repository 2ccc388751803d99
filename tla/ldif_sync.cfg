SPECIFICATION FairSpec
CONSTANTS
    r1 = r1
    a1 = a1
    a2 = a2
    Records = {r1}
    Attrs = {a1, a2}
    Contents <- SmallContents
    NumRuns = 2
    MaxOverlaps = 1
    MaxDeletes = 1
    MaxFaults = 1
INVARIANTS OneSheetPerRecord LogsTellResult PersistedWithoutFaults
PROPERTIES AppliedBeforeMapped RunsEnd
CHECK_DEADLOCK FALSE
