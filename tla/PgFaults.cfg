\* Admin server with two threads, MCP server with one, and the import, which may be
\* run twice; one kill, lost connection or failing statement.
SPECIFICATION Spec
CONSTANTS
    hub = hub
    mcp = mcp
    script = script
    h1 = h1
    h2 = h2
    m1 = m1
    i1 = i1
    d1 = d1
    d2 = d2
    a = a
    b = b
    c = c
    ingest = ingest
    None = None
    Blank = Blank
    Docs = {d1, d2}
    Contents = {a, b, c}
    TypeOf <- Types
    RefersTo <- References
    Procs = {hub, mcp, script}
    Owners = {hub, script}
    Threads = {h1, h2, m1, i1}
    Home <- Layout
    Importer = i1
    Source <- Files
    Keys = {ingest}
    Statements = 2
    Attempts = 2
    Requests <- Calls
    MaxCalls = 2
    MaxImports = 2
    MaxFaults = 1
INVARIANTS
    ReadyOnSchema
    OneLiveSection
    HistoryTellsDocument
    NoCircularWait
PROPERTIES
    TypeStays
SYMMETRY Symmetry
CHECK_DEADLOCK FALSE
