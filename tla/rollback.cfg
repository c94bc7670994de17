SPECIFICATION LiveSpec
CONSTANTS
    r1 = r1
    r2 = r2
    r3 = r3
    s1 = s1
    s2 = s2
    c1 = c1
    c2 = c2
    b1 = b1
    b2 = b2
    m1 = m1
    g1 = g1
    g2 = g2
    g3 = g3
    Resources = {r1, r2}
    Syncs = {s1, s2}
    Committers = {}
    Rollbackers = {b1}
    Late = {}
    Markers = {m1}
    Registrars = {g1, g2}
    Target <- TwoTargets
    ReportHeuristics = TRUE
    ThrowSpecsEnforced = TRUE
    ProxiesCached = FALSE
    Failing = {r2}
    Disconnecting = {r1}
    Deferring = {}
    MaxFaults = 2
INVARIANTS
    RollbackAnswerTrue
    SoloInv
PROPERTIES
    AfterCompletionIsLast
    CallsReturn
