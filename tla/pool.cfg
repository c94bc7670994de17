SPECIFICATION LiveSpec
CONSTANTS
    q1 = q1
    q2 = q2
    q3 = q3
    m1 = m1
    m2 = m2
    NoTask = NoTask
    Requests = {q1, q2, q3}
    Capacity = 1
    ULongRange = 16
    MaxThreads = 2
    InitialThreads = 1
    InitialMinimum = 1
    InitialMaximum = 2
    InitialKeepAlive = "once"
    Managers = {m1}
    Setting <- Enlarging
    Throwing = {}
INVARIANTS
    TypeOK
    NoLostWakeup
    KeptOnce
PROPERTIES
    QuietAfterDestroy
    AcceptedIsRun
    DestroyReturns
