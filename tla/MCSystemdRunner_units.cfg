\* Any calls in a row, while commands are refused, killed, cancelled or not started and
\* systemd hangs.
SPECIFICATION FairSpec
CONSTANTS
    FaultKinds = {"refused", "silent", "cancel", "spawn", "hang"}
    MaxFaults = 3
INVARIANTS TypeOK AnswerLasts
PROPERTIES RefinesPromises OperationEnds
