\* A log of up to three bytes that is launched twice and opened twice, with late
\* answers, lost requests and lists that come late.
SPECIFICATION FairSpec
CONSTANTS
    a = a
    Tasks = {a}
    NoTask = NoTask
    TailBytes = 1
    LimitBytes = 2
    KeepBytes = 2
    MaxBytes = 3
    MaxLaunches = 2
    MaxOpens = 2
INVARIANTS TypeOK ShownInOnePiece GapIsAnnounced
PROPERTIES CatchesUp
