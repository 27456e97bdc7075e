SPECIFICATION Spec
CONSTANTS
    r1 = r1
    r2 = r2
    r3 = r3
    u1 = u1
    u2 = u2
    s1 = s1
    NoOwner = NoOwner
    Requests = {r1, r2}
    Users = {u1, u2}
    Sessions = {s1}
    UserOf <- OneUser
    SessionOf <- OneSession
    MaxMessages = 3
    MaxToolCalls = 1
    MaxReplyCalls = 2
    Serial = FALSE
    Faults <- NoFaults
    TTL = 1
    Horizon = 1
INVARIANTS
    OverlongIsTemporary
    QuiescentBound
    KeysExpire
    FollowUpAnswersEveryCall
    TaskAskedOnce
    AnswersFollowDeclarations
PROPERTIES
    ImplementsSessionLog
