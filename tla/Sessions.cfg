CONSTANTS
    Email = {u1, u2}
    SessionKey = {s1, s2}
    Request = {r1, r2}
    Absent = Absent
    Idle = Idle
    None = None
    TTL = 1
    Operation = {"visit", "login", "logout", "password"}
    Horizon = 1
SPECIFICATION Spec
SYMMETRY Symmetry
CHECK_DEADLOCK FALSE
INVARIANTS
    TypeOK
    SessionsKeepTheirUser
    ActsAsItsSession
    ShutOutWhileDisabled
PROPERTIES
    EndedSessionsStayEnded
