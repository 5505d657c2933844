CONSTANTS
    Images = {i1, i2}
    MaxEnter = 2
    MaxQueued = 1
    MaxText = 2
    Requests = {r1, r2}
    MaxLoads = 3
    MaxChanges = 3
    Providers = {p1, p2}
    Commands = {c1, c2}
    Sessions = {s1}
    MaxTokens = 2
    MaxTries = 1
    MaxRuns = 3
    NoValue = NoValue
    Clients = {c1, c2}
    MaxVersion = 3
    MaxInstalls = 3
    Vendors = {"codex", "workers_ai"}
    Lists = {r1, r2}
    Pages = {g1}
    MaxAsked = 3
    MaxFetchFaults = 1
    Screens = {w1, w2}
    MaxLines = 2
    MaxOthers = 1
    MaxFailures = 1
    MaxLost = 1
    MaxPops = 1
SYMMETRY Symmetry
SPECIFICATION Spec
CHECK_DEADLOCK FALSE
INVARIANTS
    
    SuggestionsAreCurrent
    CredentialsAreKept
    OneCatalog
    

    
