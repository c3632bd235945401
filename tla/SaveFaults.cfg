\* One server process, two request threads; it may be killed at any step of a
\* save, of a rollback or of recovery, and any I/O call may raise.
\* Running threads are scheduled and a killed process is started again.
SPECIFICATION FairSpec
CONSTANTS
    t1 = t1
    t2 = t2
    p1 = p1
    p2 = p2
    None = None
    Torn = Torn
    Docs = {d1}
    Types = {note}
    Bodies = {b1, b2}
    Metas = {m1}
    Projects = {x}
    Intents = {}
    Threads = {t1, t2}
    Procs = {p1}
    ProcOf <- OneProcess
    CrashIn <- Anywhere
    FailIn <- AllFail
    MaxSaves = 3
    MaxCrashes = 2
INVARIANTS
    AckedHistoryKept
PROPERTIES
    RecoveryConverges
    RequestsAreAnswered
    OpensEventually
CHECK_DEADLOCK FALSE
