SPECIFICATION ASpec
CONSTANTS
    r1 = r1
    r2 = r2
    r3 = r3
    u1 = u1
    s1 = s1
    NoOwner = NoOwner
    Requests = {r1}
    Users = {u1}
    Sessions = {s1}
    UserOf <- OneUser
    SessionOf <- OneSession
    MaxMessages = 4
    MaxToolCalls = 2
    MaxReplyCalls = 3
    Serial = TRUE
    Faults <- NoFaults
    TTL = 1
    Horizon = 0
    Setting <- Claude
    ApiKeys = {"anthropic"}
    Expressions <- Trees
    Offered <- Sum
INVARIANT ModelFitsProvider
