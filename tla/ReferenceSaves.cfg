\* Three saves of three documents by two threads, any of which may be rolled back, and a
\* lookup of a lineage beside them.
SPECIFICATION FairSpec
CONSTANTS
    None = None
    t1 = t1
    t2 = t2
    Threads = {t1, t2}
    Size = 3
    Written <- Writing
    ChangeTypes = {None}
    MaxSaves = 3
    Superseding <- Maps
    Relating <- Related
    Readables <- Readers
INVARIANTS
    NothingDangles
    HistoryTellsLineage
    LineageIsWhole
PROPERTIES
    Returns
CHECK_DEADLOCK FALSE
