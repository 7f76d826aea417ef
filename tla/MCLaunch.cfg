SPECIFICATION Spec
CONSTANTS
    Root = root
    Guest = {g1, g2}
    None = None
    Image = {plain, syscalls}
    Clean = {plain}
    QueueCap = 2
SYMMETRY Symmetry
CONSTRAINT Bounded
CHECK_DEADLOCK FALSE
INVARIANT
    NothingRunsOn
    ScannedRuns
    DrainedIsOver
