CONSTANTS
    NULL = NULL
    Absent = Absent
    Idle = Idle
    Queue = {q1}
    MessageId = {m1, m2}
    Caller = {c1}
    Timeout = {0, 2}
    QueueTimeout = {}
    Delay = {}
    QueueDelay = {}
    Period = {}
    RetryLimit = {2}
    DefaultTimeout = 1
    MaxTotalVisibility = 2
    MaxBatch = 1
    Horizon = 3
    MaxDraws = 3
SPECIFICATION Spec
SYMMETRY Symmetry
CHECK_DEADLOCK FALSE
INVARIANTS
    TypeOK
    LeaseExclusion
    HiddenAtMostTwelveHours
PROPERTIES
    KeepsThePromise
