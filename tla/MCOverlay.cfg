CONSTANTS
    Thread = {t1, t2}
    Process = {g1, g2}
    Path = {a, b, w}
    Project = {w}
    Rules <- NoRule
    Calls <- Request
    None = None
    MaxCalls = 3
    MaxActive = 1
    MaxFaults = 0
SPECIFICATION Spec
SYMMETRY Symmetry
INVARIANTS PrivateView ListingAgrees
CHECK_DEADLOCK FALSE
