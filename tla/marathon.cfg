\* One partition that may be leased twice and two workers; the attempt of an
\* outsider contends for waves and cursors as another partition would.
\* A closed marathon, or one whose effect failed, leaves nothing to do.
CONSTANTS
    outsider = outsider
    Partitions = {p1}
    Workers = {w1, w2}
    Coordinators = {b1, b2}
    CursorKeys = {c1, c2}
    Keys <- MCKeys
    Waves = {1, 2}
    MaxAttempts = 2
    MaxObservations = 1
    MaxTransitions = 3
SYMMETRY Interchangeable
SPECIFICATION Spec
INVARIANTS ProvenIfSucceeded ProofsAreBacked AttemptsAreLeased JournalIsLegal CompleteIsSettled
CHECK_DEADLOCK FALSE
