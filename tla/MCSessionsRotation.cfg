SPECIFICATION FairSpec
CONSTANTS
    r1 = r1
    r2 = r2
    i1 = i1
    Requests = {r1, r2}
    Kinds = {"user"}
    Ids = {i1}
    NoRow = NoRow
    MaxSessions = 1
    MaxMints = 4
INVARIANTS SupersededNeverReturns SpentTokenDies NoLockout
PROPERTIES IssuedTokenHasItsTurn
CHECK_DEADLOCK FALSE
