\* Two executions on one sandbox, one crash.
SPECIFICATION FairSpec
CONSTANTS
    Executions = {e1, e2}
    Workers = {w1, w2}
    Selected = {w1, w2}
    Attested = {w1}
    Overtaking = FALSE
    MaxCrashes = 1
    MaxFaults = 1
INVARIANTS NoFalseSuccess RolledBackIsGone
PROPERTY EveryRequestEnds
\* All executions end.
CHECK_DEADLOCK FALSE
