CONSTANTS
    Rows = {1, 2, 3}
    Stamps <- MCStamps
    NoDate <- MCNoDate
    Tables <- MCTables
    CursorKeys <- MCKeys
    Sorts <- MCSorts
    Limits = {1, 2}
    MaxChanges = 1
    Raws <- MCRaws
SPECIFICATION Spec
INVARIANTS WalkSeesEveryRow PagesMatchBothWays AcceptedValuesFit RejectionsAreExplained
CHECK_DEADLOCK FALSE
