\* The outbox: two effects, two workers, two attempts, clock readings 0, 0.5, 1
\* and 1.5: a lease of one second expires and is granted again while a call
\* stamped before the expiry is still waiting for the write lock.
\* The registry: one executor, two processes that revoke or attest it while it
\* is registered, qualified and enabled; two incidents over one archive beside it.
SPECIFICATION WorkerServicesSpec
CONSTANTS
    Effects = {e1, e2}
    Workers = {w1, w2}
    Formats = {"us"}
    MaxAttempts = 2
    LeaseSeconds = {1}
    RetryDelays = {0, 1}
    MaxLimit = 2
    MaxSec = 1
    Actors = {"ana", "rev"}
    Names <- MCNames
    Decisions <- MCDecisions
    Incidents = {"i", "j"}
    Archives = {"a1", "a2"}
    Keys = {"k"}
    Pems = {"pem"}
    Reviews <- MCReviews
    Publications = {pub1, pub2}
    Executors = {"x"}
    Descriptors <- MCDescriptors
    Payloads <- MCPayloads
    Reasons = {"why"}
    Demands = {"local"}
    pub1 = pub1
    pub2 = pub2
    p = p
    q = q
    Callers = {p, q}
SYMMETRY Alike
INVARIANTS ExclusiveLease LedgerTellsTheRow LifecycleIsLegal DecidedOnTheRecord EverythingVerifies AttestedWasEnabled RecoveryIsBacked
PROPERTIES FencedSettlement RecoversOnlyExpired KeepsQueuePromise
\* The outbox's clock stops at MaxSec; a revoked executor and spent decisions
\* leave nothing to do.
CHECK_DEADLOCK FALSE
