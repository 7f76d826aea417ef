SPECIFICATION Spec
CONSTANTS
    Launcher = {l1, l2, l3, l4}
    None = None
    Retries = 2
    MaxLaunchers = 3
    FreshYields = TRUE
    MaxTimeouts = 1
    MaxFailures = 1
SYMMETRY Symmetry
CHECK_DEADLOCK FALSE
INVARIANTS
    BrokerIsPublished
    DeadAreWatched
    GuestsFollowTheBroker
PROPERTY
    SingleWriter
