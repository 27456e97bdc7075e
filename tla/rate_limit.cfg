SPECIFICATION Spec
CONSTANTS
    c1 = c1
    c2 = c2
    c3 = c3
    c4 = c4
    c5 = c5
    u1 = u1
    NoUser = NoUser
    Calls = {c1, c2, c3, c4, c5}
    Users = {u1}
    UserOf <- OneUser
    Limit = 2
    Window = 2
    Horizon = 4
    Faults <- AllFaults
SYMMETRY Alike
INVARIANTS
    TypeOK
    MinuteLimit
    RefusedOnlyOverLimit
    SpanLimit
