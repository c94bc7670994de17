SPECIFICATION LiveSpec
CONSTANTS
    q1 = q1
    q2 = q2
    q3 = q3
    m1 = m1
    m2 = m2
    NoTask = NoTask
    Requests = {q1, q2}
    Capacity = 2
    ULongRange = 16
    MaxThreads = 2
    InitialThreads = 2
    InitialMinimum = 2
    InitialMaximum = 2
    InitialKeepAlive = "timed"
    Managers = {m1, m2}
    Setting <- Shrinking
    Throwing = {}
PROPERTIES
    AcceptedIsRun
