SPECIFICATION Spec
CONSTANTS
    WedgeGrace = 3
    ResetInterval = 4
    MaxSoftResets = 1
    GiveUpAfter = 14
    CleanStreak = 60
    MaxThreads = 2
PROPERTIES
    FixedWedgeNeverGivesUp
CHECK_DEADLOCK FALSE
