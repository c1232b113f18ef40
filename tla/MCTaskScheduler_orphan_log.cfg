\* A task ends while a delete-all is under way: its log outlives its row.
SPECIFICATION Spec
CONSTANTS
    t1 = t1
    t2 = t2
    Tasks = {t1, t2}
    Gpus = {0, 1}
    NoTask = NoTask
    NoGpu = NoGpu
    Prios = {0}
    Prefs = {0, NoGpu}
    Scopes <- AllTasks
    Legacy = {}
    Foreign = {}
    Requests = {"delete_all"}
    FaultKinds = {}
    MaxFaults = 0
SYMMETRY TaskSymmetry
INVARIANTS LogsOwned
