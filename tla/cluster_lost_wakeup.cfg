SPECIFICATION MCFairSpec
CONSTANTS
    d1 = d1
    c1 = c1
    g1 = g1
    g2 = g2
    Clusters = {c1}
    Domains = {}
    Goroutines = {g1}
    Disturbances = {"offline"}
    MaxDisturbances = 1
PROPERTY
    PollingNoticesAvailability
CHECK_DEADLOCK FALSE
