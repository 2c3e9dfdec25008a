SPECIFICATION Spec
CONSTANTS
    l1 = l1
    l2 = l2
    u1 = u1
    c1 = c1
    c2 = c2
    Lines = {l1, l2}
    Users = {u1}
    UserOf <- SameUser
    IdOf <- OwnId
    PlatformOf <- OwnId
    Callers = {c1}
    None = None
    MessageCap = 1
    RegisteredCap = 1
    UnregisteredCap = 2
    ErrorCap = 1
    WriteCap = 1
    IdleCheck = TRUE
    PoolRecovers = FALSE
    MayClose = FALSE
    MayReceive = FALSE
    MaxTicks = 1
    MaxCalls = 1
    MaxFrames = 0
    MaxFaults = 1
    MaxEvents = 1
INVARIANTS
    ListedHasChannels
    ListedOnce
    NoSecondSignal
PROPERTY
    ConnectionsGoOneWay
CHECK_DEADLOCK FALSE
SYMMETRY Swap
