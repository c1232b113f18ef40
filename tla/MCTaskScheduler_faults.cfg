\* A restartable application whose systemd commands fail cleanly: what runs, is owned and is registered.
SPECIFICATION Spec
CONSTANTS
    t1 = t1
    t2 = t2
    Tasks = {t1, t2}
    Gpus = {0, 1}
    NoTask = NoTask
    NoGpu = NoGpu
    Prios = {0}
    Prefs = {0, NoGpu}
    Scopes = {}
    Legacy = {}
    Foreign = {}
    Requests = {"abort", "gpu"}
    FaultKinds = {"crash", "down", "error", "reboot"}
    MaxFaults = 2
SYMMETRY TaskSymmetry
INVARIANTS TypeOK UnitsExclusive UnitOwned RegisteredAreManaged
PROPERTIES DisabledGpuNotClaimed
