SPECIFICATION MCSpec
CONSTANTS
    j1 = j1
    j2 = j2
    image = image
    Job = {j1, j2}
    Image = {image}
    NoImages = NoImages
    CallerInfo <- MCInfo
    MaxInferenceAttempts = 3
    MaxCompleted = 1
SYMMETRY MCSymmetry
INVARIANTS
    RetryBound
    DegradedGrantedOnce
PROPERTIES
    SubmitIsFinal
    NoOvertaking
    NewcomersWait
