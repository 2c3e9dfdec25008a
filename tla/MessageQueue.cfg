SPECIFICATION FairSpec
CONSTANTS
    Consumers = {c1, c2}
    batchSize = 2
    xaddMaxLen = 1
    MayClose = TRUE
    MaxMessages = 2
    MaxRefusals = 1
    MaxFaults = 2
INVARIANTS NoneLost AckedWereHandled
PROPERTIES  CloseHeard
CHECK_DEADLOCK FALSE
