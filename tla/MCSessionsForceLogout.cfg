SPECIFICATION Spec
CONSTANTS
    r1 = r1
    r2 = r2
    i1 = i1
    Requests = {r1, r2}
    Kinds = {"admin", "user"}
    Ids = {i1}
    NoRow = NoRow
    MaxSessions = 1
    MaxMints = 1
INVARIANTS
    ForceLogout
CHECK_DEADLOCK FALSE
