\* Killed at the crash points from which recovery restores the atomic store; any
\* step of a save may raise.  Two types, with and without a docs-diff.
SPECIFICATION Spec
CONSTANTS
    t1 = t1
    t2 = t2
    p1 = p1
    p2 = p2
    None = None
    Torn = Torn
    Docs = {d1}
    Types = {note, adr}
    Bodies = {b1, b2}
    Metas = {m1}
    Projects = {x}
    Intents = {i1}
    Threads = {t1, t2}
    Procs = {p1}
    ProcOf <- OneProcess
    CrashIn <- Tolerated
    FailIn <- TryFails
    MaxSaves = 3
    MaxCrashes = 2
INVARIANTS
    AgreesAtRest
PROPERTIES
    ImplementsDeltaStore
    FailedSaveLeavesNoTrace
CHECK_DEADLOCK FALSE
