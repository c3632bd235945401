\* Killed or failing anywhere but between the save of an approval and its status change;
\* t1's authors read what they change.  Request threads are scheduled.
SPECIFICATION FairSpec
CONSTANTS
    None = None
    d1 = d1
    a = a
    b = b
    s1 = s1
    s2 = s2
    t1 = t1
    t2 = t2
    Docs = {d1}
    Texts = {a, b}
    Blanks = {FALSE}
    SubIds = {s1, s2}
    Threads = {t1, t2}
    Editors = {t1}
    ChatOps = {}
    Gates = {TRUE}
    CrashIn <- NotAtMark
    FailIn <- CallsButMark
    MaxCrashes = 1
INVARIANTS
    RejectedNeverReflected
PROPERTIES
    ImplementsReviewQueue
    LockIsReleased
    RequestsAreAnswered
CHECK_DEADLOCK FALSE
