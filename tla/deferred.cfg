SPECIFICATION Spec
CONSTANTS
    r1 = r1
    r2 = r2
    r3 = r3
    s1 = s1
    s2 = s2
    c1 = c1
    c2 = c2
    b1 = b1
    b2 = b2
    m1 = m1
    g1 = g1
    g2 = g2
    g3 = g3
    Resources = {r1, r2}
    Syncs = {}
    Committers = {c1}
    Rollbackers = {}
    Late = {}
    Markers = {}
    Registrars = {g1, g2}
    Target <- TwoTargets
    ReportHeuristics = TRUE
    ThrowSpecsEnforced = FALSE
    ProxiesCached = TRUE
    Failing = {}
    Disconnecting = {}
    Deferring = {r2}
    MaxFaults = 0
INVARIANTS
    AtomicOutcome
