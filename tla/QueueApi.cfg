CONSTANTS
    Caller = {c1, c2}
    Managers = {c1, c2}
    Fifo = FALSE
    Creates <- MCCreates
    Sets <- MCSets
    Tags <- MCTags
    Batches <- MCBatches
    MaxQueues = 2
    MaxWrites = 1
    Faults = TRUE
    None = None
SPECIFICATION Spec
CHECK_DEADLOCK FALSE
PROPERTIES
    CreateAgrees
    WritesAreWhole
    BatchAnswersTell
