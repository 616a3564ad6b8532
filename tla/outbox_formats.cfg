\* Callers that pass valid RFC 3339 timestamps without fractional seconds.
SPECIFICATION Spec
CONSTANTS
    Effects = {e1}
    Workers = {w1, w2}
    Formats = {"us", "s"}
    MaxAttempts = 2
    LeaseSeconds = {1}
    RetryDelays = {0}
    MaxLimit = 1
    MaxSec = 2
PROPERTY RecoversOnlyExpired
\* The model's clock stops at MaxSec.
CHECK_DEADLOCK FALSE
