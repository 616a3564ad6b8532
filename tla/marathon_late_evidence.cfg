\* Evidence that arrives after it was collected, or after the completion.
CONSTANTS
    outsider = outsider
    Partitions = {p1}
    Workers = {w1, w2}
    Coordinators = {b1, b2}
    CursorKeys = {c1, c2}
    Keys <- MCKeys
    Waves = {1, 2}
    MaxAttempts = 2
    MaxObservations = 1
    MaxTransitions = 3
SYMMETRY Interchangeable
SPECIFICATION Spec
INVARIANTS DigestBindsEverything
CHECK_DEADLOCK FALSE
