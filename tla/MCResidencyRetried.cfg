SPECIFICATION FairSpec
CONSTANTS
    Slot = {1, 2, 3}
    Model = {"light", "heavy"}
    Heavy = {"heavy"}
    NoModel = "none"
    ModelOf <- MCShort
    MaxThreads = 2
    Targets = {1, 2}
    SafetyOff = TRUE
    Fragile = {"light"}
    MaxCrashes = 1
PROPERTIES
    EveryJobRuns
