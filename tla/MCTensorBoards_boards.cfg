\* Two sessions, stops, deletions, shutdowns, crashes and failing commands.
SPECIFICATION Spec
CONSTANTS
    s1 = s1
    s2 = s2
    k1 = k1
    k2 = k2
    p1 = p1
    p2 = p2
    Sessions = {s1, s2}
    Keys = {k1, k2}
    Ports = {p1, p2}
    NoKey = NoKey
    NoPort = NoPort
    NoSession = NoSession
    Requests = {"stop", "delete", "close"}
    FaultKinds = {"error", "cancel", "crash"}
    MaxFaults = 2
SYMMETRY BoardSymmetry
INVARIANTS TypeOK PortsExclusive RunningIsOwned ClosedIsDead
PROPERTIES RefinesPromises
