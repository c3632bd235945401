\* Time counts windows: attempts with the same clock reading are in one window.
\* Two threads and one restart; logins, changes of the password and sign-ups of one name.
SPECIFICATION Spec
CONSTANTS
    None = None
    Users = {u1}
    Clients = {c1}
    Passwords = {p1, p2}
    Threads = {t1, t2}
    Keys <- AllKeys
    MaxOf <- Limits
    Window = 0
    SessionTtl = 0
    MaxTime = 1
    MaxSessions = 2
    MaxCrashes = 1
SYMMETRY Symmetry
INVARIANTS
    AttemptsAreLimited
    OthersAreLoggedOut
CHECK_DEADLOCK FALSE
