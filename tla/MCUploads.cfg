CONSTANTS
    r1 = r1
    r2 = r2
    Requests = {r1, r2}
    Ways = {"interceptor", "direct", "image", "doc"}
    Names <- MCNames
    Dirs <- MCDirs
    MaxFiles = 2
    MaxClock = 2
    MaxFaults = 1
SPECIFICATION Spec
SYMMETRY Symmetry
INVARIANTS TempsAreCleaned EveryFileIsClaimed AnsweredFilesAreKept FilesToStoreAreThere
CHECK_DEADLOCK FALSE
