SPECIFICATION Spec
CONSTANTS
    Launcher = {l1, l2, l3}
    None = None
    Retries = 2
    MaxLaunchers = 2
    FreshYields = FALSE
    MaxTimeouts = 0
    MaxFailures = 0
CHECK_DEADLOCK FALSE
INVARIANT
    GuestsFollowTheBroker
