\* Starts end and deaths are noticed, while requests, a shutdown, failing commands and cancellations interfere.
SPECIFICATION FairSpec
CONSTANTS
    s1 = s1
    s2 = s2
    k1 = k1
    p1 = p1
    Sessions = {s1, s2}
    Keys = {k1}
    Ports = {p1}
    NoKey = NoKey
    NoPort = NoPort
    NoSession = NoSession
    Requests = {"stop", "close"}
    FaultKinds = {"error", "cancel"}
    MaxFaults = 2
PROPERTIES StartEnds DeathIsNoticed
