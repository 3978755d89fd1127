SPECIFICATION MCUpSpec
CONSTANTS
    m1 = m1
    m2 = m2
    n1 = n1
    n2 = n2
    NoID = NoID
    Absent = Absent
    Machines = {m1, m2}
    ControlPlane = {}
    Names = {n1}
    Name <- MCNameShared
    MaxDeployments = 1
    Workers = 1
    Stuck = {}
    Disturbances = {}
    MaxDisturbances = 0
PROPERTY
    ReadyMachineKeepsJob
