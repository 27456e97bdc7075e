SPECIFICATION Spec
CONSTANTS
    r1 = r1
    r2 = r2
    r3 = r3
    u1 = u1
    u2 = u2
    s1 = s1
    NoOwner = NoOwner
    Requests = {r1, r2, r3}
    Users = {u1, u2}
    Sessions = {s1}
    UserOf <- TwoUsers
    SessionOf <- OneSession
    MaxMessages = 2
    MaxToolCalls = 1
    MaxReplyCalls = 1
    Serial = FALSE
    Faults <- AllFaults
    TTL = 1
    Horizon = 0
INVARIANTS
    TypeOK
    SessionIsolation
    RefusedOnlyStrangers
    ToolHistoryMatches
