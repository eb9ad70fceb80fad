SPECIFICATION Spec
CONSTANTS
    j1 = j1
    j2 = j2
    s1 = s1
    s2 = s2
    Job = {j1, j2}
    Slot = {s1}
    NoJob = NoJob
    NoImages = NoImages
    Image <- MCImage
    MaxInferenceAttempts = 1
    MaxConcurrent = 1
    SafetyRequeueMax = 1
    MaxSubmitTries = 0
    MaxDisruptions = 0
SYMMETRY MCSymmetry
INVARIANTS
    ReapMeansLost
