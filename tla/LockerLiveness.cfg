SPECIFICATION FairSpec
CONSTANTS
    Clients = {c1, c2}
    None = None
    Ttl = 2
    Refreshes = {}
    Backoffs = {1}
    Deadlines = {1}
    MaxTime = 3
    MaxLate = 0
PROPERTY LockReturns
CHECK_DEADLOCK FALSE
