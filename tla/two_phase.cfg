SPECIFICATION LiveSpec
CONSTANTS
    r1 = r1
    r2 = r2
    r3 = r3
    s1 = s1
    s2 = s2
    c1 = c1
    c2 = c2
    b1 = b1
    b2 = b2
    m1 = m1
    g1 = g1
    g2 = g2
    g3 = g3
    Resources = {r1, r2, r3}
    Syncs = {}
    Committers = {c1, c2}
    Rollbackers = {b1}
    Late = {c2, b1}
    Markers = {m1}
    Registrars = {g1, g2, g3}
    Target <- ThreeTargets
    ReportHeuristics = TRUE
    ThrowSpecsEnforced = FALSE
    ProxiesCached = TRUE
    Failing = {r1}
    Disconnecting = {}
    Deferring = {}
    MaxFaults = 1
INVARIANTS
    TypeOK
    AtomicOutcome
    CommitAnswerTrue
    NothingLeftOpen
    AtomicInv
    CompletionAfterOutcome
PROPERTIES
    ImplementsAtomicCommit
    TransactionEnds
