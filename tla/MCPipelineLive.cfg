SPECIFICATION FairSpec
CONSTANTS
    j1 = j1
    j2 = j2
    s1 = s1
    s2 = s2
    Job = {j1}
    Slot = {s1, s2}
    NoJob = NoJob
    NoImages = NoImages
    Image <- MCImage
    MaxInferenceAttempts = 2
    MaxConcurrent = 2
    SafetyRequeueMax = 1
    MaxSubmitTries = 1
    MaxDisruptions = 1
INVARIANTS
    SafetyHasImages
PROPERTIES
    EventuallyReported
    LifecycleKept
