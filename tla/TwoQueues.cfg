CONSTANTS
    NULL = NULL
    Absent = Absent
    Idle = Idle
    Queue = {q1, q2}
    MessageId = {m1, m2, m3}
    Caller = {}
    Timeout = {1}
    QueueTimeout = {}
    Delay = {}
    QueueDelay = {}
    Period = {}
    RetryLimit = {2}
    DefaultTimeout = 1
    MaxTotalVisibility = 2
    MaxBatch = 2
    Horizon = 1
    MaxDraws = 2
SPECIFICATION Spec
SYMMETRY Symmetry
CHECK_DEADLOCK FALSE
INVARIANTS
    ReceiptsNeverCross
    RowIdsInSendOrder
PROPERTIES
    OldestFirst
