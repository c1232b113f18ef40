\* A lost answer of systemd-run: two units on one GPU.
SPECIFICATION Spec
CONSTANTS
    t1 = t1
    t2 = t2
    Tasks = {t1, t2}
    Gpus = {0, 1}
    NoTask = NoTask
    NoGpu = NoGpu
    Prios = {0}
    Prefs = {0, NoGpu}
    Scopes = {}
    Legacy = {}
    Foreign = {}
    Requests = {}
    FaultKinds = {"lost"}
    MaxFaults = 1
SYMMETRY TaskSymmetry
INVARIANTS UnitsExclusive
