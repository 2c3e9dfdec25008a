SPECIFICATION OneKindSpec
CONSTANTS
    l1 = l1
    l2 = l2
    u1 = u1
    c1 = c1
    c2 = c2
    Lines = {l1}
    Users = {u1}
    UserOf <- OneUser
    IdOf <- OneId
    PlatformOf <- OneId
    Callers = {c1}
    None = None
    MessageCap = 1
    RegisteredCap = 1
    UnregisteredCap = 3
    ErrorCap = 1
    WriteCap = 1
    IdleCheck = FALSE
    PoolRecovers = FALSE
    MayClose = FALSE
    MayReceive = FALSE
    MaxTicks = 0
    MaxCalls = 2
    MaxFrames = 0
    MaxFaults = 1
    MaxEvents = 2
PROPERTIES
    SweepCompletes
    
CHECK_DEADLOCK FALSE
