CONSTANTS
    Thread = {t1, t2}
    Process = {g1, g2}
    Path = {a}
    Project = {}
    Rules <- NoRule
    Calls <- Typical
    None = None
    MaxCalls = 2
    MaxActive = 1
    MaxFaults = 0
SPECIFICATION Spec
SYMMETRY Symmetry
INVARIANTS RecreatedIsNew
CHECK_DEADLOCK FALSE
