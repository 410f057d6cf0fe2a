CONSTANTS
    Idle = Idle
    Nothing = Nothing
    User = {u1, u2}
    Namespace = {n1}
    QueueName = {q1}
    Request = {r1, r2}
    TTL = 1
    Operation <- AccessOperations
    KmsOutcome = {"ok"}
    MaxQueueId = 1
    MaxRowId = 2
SPECIFICATION Spec
SYMMETRY Symmetry
INVARIANTS
    TypeOK
    
