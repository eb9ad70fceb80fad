SPECIFICATION FairSpec
CHECK_DEADLOCK FALSE
CONSTANTS
    j1 = j1
    j2 = j2
    Job = {j1, j2}
    MaxDisruptions = 2
INVARIANTS
    AcceptedIsReported
    WorkKeepsItsProcess
    ExitLeavesNoneUntold
PROPERTIES
    ShutdownEnds
