\* A worker dies after it has installed the release; before the retry the
\* source tree is edited, so that validate refuses the plan.
SPECIFICATION Spec
CONSTANTS
    Executions = {e1}
    Workers = {w1}
    Selected = {w1}
    Attested = {w1}
    Overtaking = FALSE
    MaxCrashes = 1
    MaxFaults = 1
INVARIANT NoEffectIsTrue
\* All executions end.
CHECK_DEADLOCK FALSE
