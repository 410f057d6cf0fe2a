CONSTANTS
    u1 = u1
    u2 = u2
    k1 = k1
    n1 = n1
    n2 = n2
    Slot = {s1}
    User = {u1, u2}
    Key = {k1}
    Namespace = {n1}
    Inputs <- AllInputs
    Own <- OwnUrl
    Configured = TRUE
    Now = 1440
    Malformed = Malformed
    Opaque = Opaque
    None = None
SPECIFICATION Spec
CHECK_DEADLOCK FALSE
INVARIANTS
    KeysKeepTheirPlace
    CookieWritesAreOwn
    SignedAnswersReadable
