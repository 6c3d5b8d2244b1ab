SPECIFICATION FairSpec
CONSTANTS
    Files = {f1, f2}
    None = None
    QueueSize = 8
    MaxChunks = 10
INVARIANTS TypeOK RolledBack CommitComplete SmallBodyNeverBlocks StuckOnlyClogged
PROPERTIES SmallBodyAnswered RunsOut ImplementsWriter
CHECK_DEADLOCK FALSE
