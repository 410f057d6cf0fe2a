CONSTANTS
    Idle = Idle
    Nothing = Nothing
    User = {u1}
    Namespace = {n1}
    QueueName = {q1, q2}
    Request = {r1, r2}
    TTL = 2
    Operation <- QueueOperations
    KmsOutcome = {"ok"}
    MaxQueueId = 2
    MaxRowId = 1
SPECIFICATION Spec
INVARIANTS
    ActsOnTheQueueNamed
PROPERTIES
    WrongAnswersEnd
