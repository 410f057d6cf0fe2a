CONSTANTS
    main = main
    other = other
    cwd = cwd
    default = default
    own = own
    given = given
    unset = unset
    empty = empty
    Process = {main, other}
    Main = main
    Directory = {cwd}
    DefaultDir = cwd
    DataDirs = {unset}
    Password = {default, own, given}
    Default = default
    Own = own
    Key = {k1, k2, k3}
    Migrations = 1
    Unset = unset
    Empty = empty
    Off = Off
    Environments <- GivenOrNot
    Poll = {p1}
    QueueId = {q1, q2}
    Waits = {2, 3}
    MaxWait = 2
    Grace = 1
    MaxStored = 1
    NoQueue = NoQueue
    NoPoll = NoPoll
SPECIFICATION Spec
CHECK_DEADLOCK FALSE
INVARIANTS
    TypeOK
    OneSessionKey
    NoPollCutOff
PROPERTIES
    AnswersFromItsQueue
    PasswordKept
    PollsEnd
    ServerStops
