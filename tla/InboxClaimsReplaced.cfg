SPECIFICATION Spec
CONSTANTS
    Names = {n1, n2}
    Jtis = {j1, j2}
    None = None
    Paths = {p1}
    Streams = {s1}
    ClaimTTL = 2
    DefaultTTL = 1
    MaxBundles = 2
INVARIANTS NothingLost
