SPECIFICATION FairSpec
CONSTANTS
    WedgeGrace = 3
    ResetInterval = 4
    MaxSoftResets = 1
    GiveUpAfter = 14
    CleanStreak = 60
    MaxThreads = 2
INVARIANTS
    LimpOnlyInEpisode
PROPERTIES
    BrokenPoolEnds
    LimpIsLifted
CHECK_DEADLOCK FALSE
