CONSTANTS
    s1 = s1
    s2 = s2
    s3 = s3
    Sessions = {s1, s2}
    Lifetimes = {1, 5}
    RetryAfters = {0, 9}
    MaxRenewalDelay = 3
    MinRetryDelay = 1
    MaxBackoff = 7
    FailureCap = 3
    StopTimeout = 2
SPECIFICATION FairSpec
INVARIANTS NothingLeftBehind
PROPERTIES BackoffEscalates CancelReturns LossEndsConnection
