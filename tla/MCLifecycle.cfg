SPECIFICATION FairSpec
CHECK_DEADLOCK FALSE
CONSTANTS
    s1 = s1
    s2 = s2
    Slot = {s1}
    MaxReplacements = 1
    MaxStartFailures = 2
    MaxMail = 1
    MaxDisruptions = 1
    MaxRequests = 2
INVARIANTS
    OwnedOrTold
    PlacementFollows
    BreakersEarned
PROPERTIES
    DeadIsReplaced
    SafetySucceeded
