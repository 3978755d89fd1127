SPECIFICATION MCDeployedFairSpec
CONSTANTS
    m1 = m1
    m2 = m2
    n1 = n1
    n2 = n2
    NoID = NoID
    Absent = Absent
    Machines = {m1, m2}
    ControlPlane = {m1, m2}
    Names = {n1, n2}
    Name <- MCNameTwo
    MaxDeployments = 1
    Workers = 2
    Stuck = {m2}
    Disturbances = {"failed", "lost", "crash"}
    MaxDisturbances = 1
INVARIANT
    DNSAttachedHonest
PROPERTIES
    MachineKeepsJob
    DeletionCompletes
