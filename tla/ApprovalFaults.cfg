\* Killed anywhere, restarted with the gate on or off, and any call raising; submitted
\* frontmatter may have empty fields, and the chat submits deprecations.
SPECIFICATION Spec
CONSTANTS
    None = None
    d1 = d1
    a = a
    b = b
    s1 = s1
    s2 = s2
    t1 = t1
    t2 = t2
    Docs = {d1}
    Texts = {a, b}
    Blanks = {TRUE, FALSE}
    SubIds = {s1, s2}
    Threads = {t1, t2}
    Editors = {}
    ChatOps = {"deprecate"}
    Gates = {TRUE, FALSE}
    CrashIn <- Anywhere
    FailIn <- Calls
    MaxCrashes = 1
SYMMETRY Symmetry
INVARIANTS
    ApprovedWasReflected
PROPERTIES
    ReflectedOnBase
CHECK_DEADLOCK FALSE
