\* Answers of systemd get lost: every task still settles, in the order of the queue.
SPECIFICATION OrderSpec
CONSTANTS
    t1 = t1
    t2 = t2
    Tasks = {t1, t2}
    Gpus = {0, 1}
    NoTask = NoTask
    NoGpu = NoGpu
    Prios = {0, 1}
    Prefs = {0, NoGpu}
    Scopes = {}
    Legacy = {}
    Foreign = {1}
    Requests = {}
    FaultKinds = {"crash", "lost", "error", "timeout"}
    MaxFaults = 2
INVARIANTS AtMostOnce
PROPERTIES EveryTaskSettles NoneIsPassedOver
