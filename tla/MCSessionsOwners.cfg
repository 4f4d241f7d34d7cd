SPECIFICATION Spec
CONSTANTS
    r1 = r1
    r2 = r2
    i1 = i1
    Requests = {r1, r2}
    Kinds = {"admin", "user"}
    Ids = {i1}
    NoRow = NoRow
    MaxSessions = 2
    MaxMints = 3
INVARIANTS
    TypeOK
    DeletedStaysDeleted
    TokensStayWithOwner
    LogoutBlacklistsFirst
PROPERTIES
    QuietAfterRemoval
    ImplementsLifecycle
SYMMETRY Symmetry
CHECK_DEADLOCK FALSE
