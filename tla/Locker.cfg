SPECIFICATION Spec
CONSTANTS
    Clients = {c1, c2}
    None = None
    Ttl = 2
    Refreshes = {0, 1}
    Backoffs = {0, 1}
    Deadlines = {1}
    MaxTime = 3
    MaxLate = 1
SYMMETRY Symmetry
INVARIANTS MutualExclusion
PROPERTIES OneAtATime
CHECK_DEADLOCK FALSE
