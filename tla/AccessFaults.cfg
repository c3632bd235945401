\* One user whose rights change, two requests at a time; tokens live for one unit of time.
SPECIFICATION Spec
CONSTANTS
    Users = {u1}
    Projects = {open, p1}
    Default = open
    Threads = {t1, t2}
    Ttl = 1
    MaxTime = 2
    MaxPats = 1
    MaxJwts = 1
SYMMETRY Symmetry
INVARIANTS
    TypeOK
    RightsLapse
    DeletedWithMembers
CHECK_DEADLOCK FALSE
