SPECIFICATION GSpec
CONSTANTS
    r1 = r1
    r2 = r2
    r3 = r3
    u1 = u1
    s1 = s1
    NoOwner = NoOwner
    NoUser = NoUser
    Requests = {r1, r2, r3}
    Users = {u1}
    Sessions = {s1}
    UserOf <- OneUser
    SessionOf <- OneSession
    Caller <- Subjects
    MaxMessages = 2
    MaxToolCalls = 1
    MaxReplyCalls = 0
    Serial = TRUE
    Faults <- ModelFaults
    TTL = 1
    Horizon = 1
    Limit = 1
    Window = 1
    LimiterFaults <- AllFaults
INVARIANTS
    ServedWithinLimit
    RefusalsLeaveNoTrace
PROPERTIES
    EveryCallIsAnswered
