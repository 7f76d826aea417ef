CONSTANTS
    Thread = {t1, t2}
    Process = {g1, g2}
    Path = {a, b}
    Project = {}
    Rules <- AnyWrite
    Calls <- Typical
    None = None
    MaxCalls = 2
    MaxActive = 2
    MaxFaults = 1
SPECIFICATION Spec
SYMMETRY Symmetry
PROPERTY Containment
CHECK_DEADLOCK FALSE
