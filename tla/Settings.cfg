CONSTANTS
    NULL = NULL
    Absent = Absent
    Idle = Idle
    Queue = {q1}
    MessageId = {m1}
    Caller = {c1}
    Timeout = {0, 1}
    QueueTimeout = {2}
    Delay = {2}
    QueueDelay = {1}
    Period = {0, 2}
    RetryLimit = {1, 2}
    DefaultTimeout = 1
    MaxTotalVisibility = 2
    MaxBatch = 2
    Horizon = 2
    MaxDraws = 3
SPECIFICATION Spec
SYMMETRY Symmetry
CHECK_DEADLOCK FALSE
INVARIANTS
    AttemptsBounded
    StatusMatchesGauges
    BeyondLimitTruthful
