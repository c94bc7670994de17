SPECIFICATION LiveSpec
CONSTANTS
    c1 = c1
    c2 = c2
    k1 = k1
    k2 = k2
    w1 = w1
    w2 = w2
    Home = Home
    Nobody = Nobody
    NoClient = NoClient
    Clients = {c1, c2}
    Workers = {w1, w2}
    Components = {k1, k2}
    Initial = {k1}
    Stubborn = {k2}
    MultiThread = FALSE
    Descriptor <- AllPolicies
    Requests <- AllRequests
    Scripts <- AllScripts
INVARIANTS
    TypeOK
    Serialized
    KeptWhileUsed
    RemovedOnce
    ReplyCarriesItsTransaction
    OwnTransactionEnded
    ExceptionDooms
PROPERTIES
    EndedByItsBeginner
    Answered
    RemoveHomeReturns
CHECK_DEADLOCK FALSE
