SPECIFICATION FairSpec
CONSTANTS
    c1 = c1
    c2 = c2
    Child = {c1, c2}
    None = None
    MaxThreads = 1
    MaxFaults = 3
INVARIANTS
    NoneOrphaned
PROPERTIES
    WaitersServed
