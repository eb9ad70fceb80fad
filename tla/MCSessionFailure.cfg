SPECIFICATION Spec
CHECK_DEADLOCK FALSE
CONSTANTS
    j1 = j1
    j2 = j2
    Job = {j1}
    MaxDisruptions = 1
INVARIANTS
    FailureAbandonsNothing
