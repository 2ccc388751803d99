SPECIFICATION FairSpec
CONSTANTS
    a = a
    b = b
    c = c
    d = d
    t = t
    u = u
    i1 = i1
    i2 = i2
    i3 = i3
    i4 = i4
    i5 = i5
    i6 = i6
    i7 = i7
    p1 = p1
    p2 = p2
    w1 = w1
    w2 = w2
    c1 = c1
    c2 = c2
    d1 = d1
    d2 = d2
    r1 = r1
    r2 = r2
    r3 = r3
    k1 = k1
    k2 = k2
    k3 = k3
    v1 = v1
    v2 = v2
    v3 = v3
    yes = yes
    CommentIds = {c1, c2}
    TodoIds = {k1, k2, k3}
    DefinitionIds = {d1, d2}
    RunIds = {r1, r2, r3}
    InvitationIds = {v1, v2, v3}
    FirstTodos <- OneTodo
    FirstInvitations <- TwoInvited
    FirstRuns <- TwoRuns
    TodoChanges <- Changes
    Answers = {yes}
    Sheets = {a, b, c, d}
    Types = {t, u}
    SpaceOf <- TwoSpaces
    SyncSpace = w1
    RelIds = {i1, i2, i3, i4, i5, i6, i7}
    Procs = {p1, p2}
    Initial <- FirstRelations
    PatchLists <- Patches
    TargetLists <- Targets
    Called = {a, b}
    CalledTypes = {t}
    MaxCalls = 2
    MaxFaults = 1
    NoRel = NoRel
    Deleted = Deleted
    Same = Same
    Nothing = Nothing
INVARIANTS OneWorkspace NoOrphans NotInItsOwnWay AnnouncedWereLinked ExplainExact ResultsComplete
PROPERTIES RevTellsOfRelations FullModeExact AcknowledgedStay CallsReturn
CHECK_DEADLOCK FALSE
