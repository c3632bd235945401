\* Killed between the document write and the journal step that records it.
SPECIFICATION Spec
CONSTANTS
    t1 = t1
    t2 = t2
    p1 = p1
    p2 = p2
    None = None
    Torn = Torn
    Docs = {d1}
    Types = {note}
    Bodies = {b1, b2}
    Metas = {m1}
    Projects = {x}
    Intents = {}
    Threads = {t1, t2}
    Procs = {p1}
    ProcOf <- OneProcess
    CrashIn <- AtMark
    FailIn <- Nowhere
    MaxSaves = 3
    MaxCrashes = 1
INVARIANT
    HistoryTellsDocument
CHECK_DEADLOCK FALSE
