SPECIFICATION MCNewFairSpec
CONSTANTS
    m1 = m1
    m2 = m2
    n1 = n1
    n2 = n2
    NoID = NoID
    Absent = Absent
    Machines = {m1}
    ControlPlane = {m1}
    Names = {n1}
    Name <- MCNameOne
    MaxDeployments = 1
    Workers = 1
    Stuck = {}
    Disturbances = {"failed", "lost", "panic", "crash", "pause", "removal"}
    MaxDisturbances = 1
PROPERTY
    DeletionCompletes
