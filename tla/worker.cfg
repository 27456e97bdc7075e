SPECIFICATION WSpec
CONSTANTS
    r1 = r1
    r2 = r2
    r3 = r3
    u1 = u1
    u2 = u2
    s1 = s1
    j1 = j1
    j2 = j2
    NoOwner = NoOwner
    Requests = {r1}
    Users = {u1}
    Sessions = {s1}
    UserOf <- OneUser
    SessionOf <- OneSession
    MaxMessages = 3
    MaxToolCalls = 1
    MaxReplyCalls = 1
    Serial = TRUE
    Faults <- NoFaults
    TTL = 1
    Horizon = 1
    Jobs = {j1, j2}
    JobSession <- OneTarget
    MinToSummarise = 3
    KeepRecent = 1
    MaxRetries = 1
    JobsApart = TRUE
    JobFaults <- AllFaults
INVARIANTS
    WorkerTypeOK
PROPERTIES
    ImplementsSessionLog
    SummaryMovesForward
    JobsEnd
