SPECIFICATION LiveSpec
CONSTANTS
    Root = root
    Guest = {g1}
    None = None
    Image = {plain, syscalls}
    Clean = {plain}
    QueueCap = 2
CHECK_DEADLOCK FALSE
PROPERTY
    SessionEnds
    UnhookedIsKilled
