SPECIFICATION MCSpec
CONSTANTS
    m1 = m1
    n1 = n1
    c1 = c1
    g1 = g1
    NoID = NoID
    Absent = Absent
    Machines = {m1}
    ControlPlane = {m1}
    Names = {n1}
    Name <- MCNameOne
    Workers = 1
    Cluster = c1
    Goroutines = {g1}
    Disturbances = {"failed", "lost", "crash"}
    MaxDisturbances = 1
INVARIANT
    InductiveInv
    NothingLeftBehind
    ServedUntilDeleted
    TeardownGoesOn
PROPERTY
    RefinesClusterLifetime
    TeardownCompletes
CHECK_DEADLOCK FALSE
