SPECIFICATION FairSpec
CONSTANTS
    Procs = {p1, p2}
    Paths = {x1}
    None = None
    MaxBundles = 2
    MaxFaults = 3
INVARIANTS TypeOK OneSweeper SparesFresh
PROPERTIES ExpiredGoes ShutdownEnds
CHECK_DEADLOCK FALSE
