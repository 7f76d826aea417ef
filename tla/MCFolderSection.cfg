CONSTANTS
    Launcher = {l1, l2, l3}
    Reader = {r1}
    MaxLaunchers = 2
    MaxRetries = 2
    NoBroker = NoBroker
    MaxGen = 5
SPECIFICATION Spec
SYMMETRY LauncherSymmetry
PROPERTIES SnapshotIsExact ImplementsAtomicSection
