\* A timeout of the cleanup after an abort: the GPU stays registered.
SPECIFICATION Spec
CONSTANTS
    t1 = t1
    t2 = t2
    Tasks = {t1, t2}
    Gpus = {0, 1}
    NoTask = NoTask
    NoGpu = NoGpu
    Prios = {0}
    Prefs = {0, NoGpu}
    Scopes = {}
    Legacy = {}
    Foreign = {}
    Requests = {"abort"}
    FaultKinds = {"timeout"}
    MaxFaults = 1
SYMMETRY TaskSymmetry
INVARIANTS RegisteredAreManaged
