SPECIFICATION Spec
CONSTANTS
    Launcher = {l1, l2, l3}
    None = None
    Retries = 2
    MaxLaunchers = 2
    FreshYields = TRUE
    MaxTimeouts = 0
    MaxFailures = 1
CHECK_DEADLOCK FALSE
PROPERTIES
    ServedAgain
    ReAttached
    DeadAreForgotten
