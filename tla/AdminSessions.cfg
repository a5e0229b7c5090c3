SPECIFICATION Spec
CONSTANTS
    Passwords = {p1, p2}
    None = None
    Handlers = {h1, h2}
    Clients = {c1}
    Tokens = {t1, t2}
    MaxFailures = 2
    Window = 2
    Lifetime = 2
    MaxLag = 1
INVARIANTS
    LoggedPasswordsWork
    FailuresAreBounded
    EndedSessionsStayEnded
PROPERTIES
    LockoutsEnd
CHECK_DEADLOCK FALSE
