\* One execution; w1 runs the registered build, w2 another one; each crashes once.
\* w2 rolls the first attempt back and dies before it appends the outcome; w1
\* then finds the journal entry and reports the success stored there.
SPECIFICATION Spec
CONSTANTS
    Executions = {e1}
    Workers = {w1, w2}
    Selected = {w1, w2}
    Attested = {w1}
    Overtaking = FALSE
    MaxCrashes = 2
    MaxFaults = 0
INVARIANT NoFalseSuccess
\* All executions end.
CHECK_DEADLOCK FALSE
