\* Every handler under faults, and a row of an earlier release.
SPECIFICATION Spec
CONSTANTS
    t1 = t1
    t2 = t2
    t3 = t3
    Tasks = {t1, t2, t3}
    Gpus = {0, 1}
    NoTask = NoTask
    NoGpu = NoGpu
    Prios = {0}
    Prefs = {NoGpu}
    Scopes <- AllTasks
    Legacy = {t3}
    Foreign = {}
    Requests = {"abort", "delete", "delete_all"}
    FaultKinds = {"crash", "error", "timeout"}
    MaxFaults = 2
INVARIANTS RowsExclusive RunningHasLog
PROPERTIES RefinesLifecycle
