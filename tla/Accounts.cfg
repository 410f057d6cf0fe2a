CONSTANTS
    Email = {root, u1}
    Root = root
    Namespace = {n1, n2}
    AccessKey = {k1}
    KmsKey = {d1, d2, d3}
    Task = {t1, t2}
    Absent = Absent
    Idle = Idle
    TTL = 1
    MaxRowId = 1
SPECIFICATION Spec
SYMMETRY Symmetry
CHECK_DEADLOCK FALSE
INVARIANTS
    TypeOK
    SomeActiveAdmin
    KmsKeysAccountedFor
    KeysAreTheirOwners
    RevokedKeysForgotten
