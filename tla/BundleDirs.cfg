SPECIFICATION FairSpec
CONSTANTS
    a = a
    b = b
    Dirs = {a, b}
    Under <- Below
    Names = {n1, n2}
    Nested = {n2}
    Uploads = {u1}
    None = None
    MinAge = 2
INVARIANTS TypeOK CommittedWhole CommittedListed
PROPERTIES CommittedStays OrphanSwept
