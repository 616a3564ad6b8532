\* The job's effect is leased before its request is replayed; nobody else
\* enqueues effects.
SPECIFICATION ReplaySpec
CONSTANTS
    Actors = {"ops"}
    Names <- MCNames
    Decisions <- MCDecisions
    Jobs <- MCJobs
    Posts = {}
    Tries = 3
INVARIANT ExactReplayReturns
\* A settled effect leaves nothing to do.
CHECK_DEADLOCK FALSE
