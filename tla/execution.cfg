\* One execution; w1 and w2 overtake each other, w3 runs another executor.
SPECIFICATION Spec
CONSTANTS
    Executions = {e1}
    Workers = {w1, w2, w3}
    Selected = {w1, w2}
    Attested = {w1, w2}
    Overtaking = TRUE
    MaxCrashes = 1
    MaxFaults = 1
INVARIANTS SettledAsLogged EffectAnnounced SuccessWasJournalled
PROPERTY KeepsRecord
\* All executions end.
CHECK_DEADLOCK FALSE
