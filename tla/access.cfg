SPECIFICATION Spec
CONSTANTS
    q1 = q1
    q2 = q2
    u1 = u1
    u2 = u2
    w1 = w1
    c1 = c1
    Requests = {q1, q2}
    Users = {u1, u2}
    Workspaces = {w1}
    WorkspaceOf <- OneWorkspace
    UserLimit = 1
    WorkspaceLimit = 1
    Window = 2
    Second = 1
    Lag = 1
    MaxTime = 2
    MaxFaults = 1
    Clients = {c1}
    Owner <- OneOwner
    InitialRole <- Seeded
    Routes = {"updateFactSheet", "todo.list"}
    Ttl = 2
    Margin = 1
    ReplyDelay = 1
    Transit = 0
    NewRoles = {"VIEWER"}
    MaxChanges = 1
INVARIANTS WindowBound RefusalsBacked CachedAccepted
PROPERTIES RecentRole
SYMMETRY RequestSymmetry
CHECK_DEADLOCK FALSE
