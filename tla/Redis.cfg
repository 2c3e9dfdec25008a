SPECIFICATION RedisSpec
CONSTANTS
    None = None
    Procs = {p1, p2, p3}
    Starts = {0, 2}
    MaxValue = 5
    Callers = {c1, c2}
    Fields = {f1}
    MaxCalls = 3
SYMMETRY SwapCallers
INVARIANTS UniqueIds ReadsGoForward AtomicExpiry BatchOutcome TakenOnce CloseReleases
CHECK_DEADLOCK FALSE
