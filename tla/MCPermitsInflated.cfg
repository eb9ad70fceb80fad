SPECIFICATION Spec
CONSTANTS
    c1 = c1
    c2 = c2
    c3 = c3
    Child = {c1, c2, c3}
    None = None
    MaxThreads = 2
    MaxFaults = 2
INVARIANTS
    OneDecodes
