SPECIFICATION MCInOrderSpec
CONSTANTS
    d1 = d1
    c1 = c1
    g1 = g1
    g2 = g2
    Clusters = {c1}
    Domains = {d1}
    Goroutines = {g1, g2}
    Disturbances = {"failed", "crash", "edit"}
    MaxDisturbances = 2
INVARIANTS
    TypeOK
    InductiveInv
    OnePoller
    TriggersHavePollers
    FinalizerFirst
    DomainsCurrent
    DeletionGoesOn
    NoLostWakeup
    WakingInv
PROPERTY
    RefinesApiServerPolling
CHECK_DEADLOCK FALSE
