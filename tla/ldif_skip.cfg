SPECIFICATION Spec
CONSTANTS
    r1 = r1
    a1 = a1
    a2 = a2
    Records = {r1}
    Attrs = {a1}
    Contents <- TinyContents
    NumRuns = 3
    MaxOverlaps = 0
    MaxDeletes = 0
    MaxFaults = 1
INVARIANTS PersistedWhenFinished
CHECK_DEADLOCK FALSE
