SPECIFICATION Spec
CONSTANTS
    r1 = r1
    r2 = r2
    r3 = r3
    s1 = s1
    s2 = s2
    c1 = c1
    c2 = c2
    b1 = b1
    b2 = b2
    m1 = m1
    g1 = g1
    g2 = g2
    g3 = g3
    Resources = {r1}
    Syncs = {s1}
    Committers = {c1}
    Rollbackers = {}
    Late = {}
    Markers = {m1}
    Registrars = {g1}
    Target <- OneTarget
    ReportHeuristics = TRUE
    ThrowSpecsEnforced = FALSE
    ProxiesCached = TRUE
    Failing = {}
    Disconnecting = {}
    Deferring = {}
    MaxFaults = 0
PROPERTIES
    MarkedCommitsNothing
