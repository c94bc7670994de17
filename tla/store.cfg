SPECIFICATION Spec
CONSTANTS
    s1 = s1
    s2 = s2
    o1 = o1
    o2 = o2
    v1 = v1
    v2 = v2
    NoRow = NoRow
    NoPid = NoPid
    NoKey = NoKey
    Sessions = {s1, s2}
    ShortPids = {o1, o2}
    States = {v1, v2}
    MaxCalls = 7
    MaxFaults = 1
SYMMETRY Alike
INVARIANTS
    TypeOK
    UnmodifiedIsStored
    OneIncarnation
    SelectsAfterFlush
    StatementsAgree
PROPERTIES
    MarkClearedByWrite
CHECK_DEADLOCK FALSE
