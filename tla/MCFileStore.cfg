CONSTANTS
    MaxFiles = 3
    Requests = {r1, r2, r3}
    r1 = r1
    r2 = r2
    r3 = r3
SPECIFICATION Spec
SYMMETRY Symmetry
CHECK_DEADLOCK FALSE
INVARIANTS DeletedMeansGone MissingFilesAreExplained OrphansComeFromUploads
