SPECIFICATION FairSpec
CONSTANTS
    Slot = {1, 2, 3}
    Model = {"light", "heavy"}
    Heavy = {"heavy"}
    NoModel = "none"
    ModelOf <- MCModelOf
    MaxThreads = 2
    Targets = {1, 2}
    SafetyOff = TRUE
    Fragile = {"heavy"}
    MaxCrashes = 1
INVARIANTS
    TypeOK
    HeavyHasTheCard
PROPERTIES
    EveryJobRuns
    CardRestored
