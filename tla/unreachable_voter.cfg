SPECIFICATION SeriesSpec
CONSTANTS
    r1 = r1
    r2 = r2
    r3 = r3
    c1 = c1
    b1 = b1
    m1 = m1
    g1 = g1
    g2 = g2
    Resources = {r1, r2, r3}
    Syncs = {}
    Committers = {c1}
    Rollbackers = {b1}
    Late = {}
    Markers = {}
    Registrars = {g1, g2}
    Target <- TwoTargets
    ReportHeuristics = TRUE
    ThrowSpecsEnforced = FALSE
    ProxiesCached = TRUE
    Failing = {}
    Disconnecting = {}
    Deferring = {}
    MaxFaults = 1
    InitialPool <- Empty
    MaxCon = 2
    MaxTransactions = 2
INVARIANTS
    RolledBackStaysRolledBack
