\* One turn and one apply at a time, side by side, repeated at will; the model, the tools and
\* the queue may fail, clients disconnect and the server restarts.
SPECIFICATION FairSpec
CONSTANTS
    t1 = t1
    t2 = t2
    Threads = {t1, t2}
    Talkers = {t1}
    Appliers = {t2}
    Hangups = TRUE
    FailIn <- Anything
    MaxIters = 2
    Answers <- ProposalAndRead
    MaxTurns = 2
    MaxCrashes = 1
INVARIANTS
    ExactlyOnce
    AskedWithResults
PROPERTIES
    TurnsEnd
CHECK_DEADLOCK FALSE
