\* Three sources and numbers for two; people write documents whose ids are of another
\* form, and edit all.
SPECIFICATION FairSpec
CONSTANTS
    None = None
    Threads = {t1, t2}
    Sources = {s1, s2, s3}
    Texts = {a}
    LastNumber = 2
    UserIds = {0}
    Gates = {TRUE, FALSE}
    MaxSubs = 4
INVARIANTS
    TypeOK
    OneDocumentPerSource
PROPERTIES
    SourceKeepsItsDocument
    LockIsReleased
CHECK_DEADLOCK FALSE
