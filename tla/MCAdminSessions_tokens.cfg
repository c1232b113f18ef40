\* Four tokens, room for two sessions, two privileged requests at a time.
SPECIFICATION Spec
CONSTANTS
    t1 = t1
    t2 = t2
    t3 = t3
    t4 = t4
    r1 = r1
    r2 = r2
    Tokens = {t1, t2, t3, t4}
    Requests = {r1, r2}
    Timeout = 3
    MaxSessions = 2
    None = None
SYMMETRY TokenSymmetry
INVARIANTS TypeOK EndedIsOver IdleExpires
PROPERTIES EvictsTheLeast
