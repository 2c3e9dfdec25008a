SPECIFICATION RequestsSpec
CONSTANTS
    None = None
    Absent = Absent
    Error = Error
    Panic = Panic
    Garbage = Garbage
    p1 = p1
    l1 = l1
    l2 = l2
    i1 = i1
    i2 = i2
    SignatureLen = 2
    NonceSize = 2
    BodyLen = 2
    Lines = {l1, l2}
    Frames = {}
    MessageCap = 2
    MaxBuffers = 2
    MaxFrames = 3
    Messages <- SomeMessages
    ShortFrames <- SomeShort
    Ips = {i1, i2}
    Requests = {r1, r2}
    Headers <- SomeHeaders
    Counts = {1, 2}
    MaxTokens = 1
    MaxInits = 2
    MaxCalls = 4
SYMMETRY SwapLines
INVARIANTS OneOwner OpenLineIntact   WithinBuckets
CHECK_DEADLOCK FALSE
