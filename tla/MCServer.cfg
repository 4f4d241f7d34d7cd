CONSTANTS
    Callers = {c1, c2}
    Fields = {logo, title}
    Roles = {staff, editor}
    Perms = {read}
    TokenLife = 2
    Attempts = 3
    MaxStalled = 1
    Mixes <- MCMixes
    MaxCalls = 3
    MaxRestarts = 2
SPECIFICATION Spec
INVARIANTS StaleEntriesComeFromRaces QuietUpdatesLast LogNeverLies SentAsReported RevocationTakesEffect
PROPERTIES MailsAreSettled
CHECK_DEADLOCK FALSE
