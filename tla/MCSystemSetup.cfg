CONSTANTS
    RoleNames = {n1}
    Emails = {m1}
    Requests = {r1, r2}
    Empty = Empty
    MaxSetups = 2
    r1 = r1
    r2 = r2
    n1 = n1
    n2 = n2
    m1 = m1
    m2 = m2
SPECIFICATION FairSpec
INVARIANTS AllOrNothing
PROPERTIES StalenessIsNotRenewed SetupClosed StalenessEnds
