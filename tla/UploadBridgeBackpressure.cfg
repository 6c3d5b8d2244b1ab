SPECIFICATION FairSpec
CONSTANTS
    Files = {f1, f2}
    None = None
    QueueSize = 8
    MaxChunks = 10
PROPERTIES LoopRecovers
CHECK_DEADLOCK FALSE
