\* A sandbox with two backups under way; two users and two requests; two
\* panes; two pages; two sub-agents that may ask for the same session; two calls
\* whose ids may be the same.
CONSTANTS
    NoValue = NoValue
    Paths = {repo, other}
    Repo = repo
    Starts = {a}
    Copies = {x, y}
    MaxTurns = 2
    MaxStarts = 3
    MaxFaults = 3
    Users = {u1, u2}
    Shared = {o1}
    Teams = {t1}
    Logins = {s1, s2}
    Requests = {r1, r2}
    MaxRequests = 3
    MaxPanes = 2
    MaxSockets = 3
    Tabs = {b1, b2}
    Services = {v1, v2}
    Servers = {d1}
    PageProjects = {p1, p2}
    Ops = {op1, op2}
    MaxTokens = 2
    MaxPageOps = 2
    SubCalls = {c1, c2}
    Names = {n1}
    Generated = {g1}
    Tools = {k1, k2}
    MaxSubTurns = 1
    MaxProgress = 2
    MaxUnread = 1
    MaxBreaks = 1
    ToolIds = {id1, id2}
    Session = 1
    MaxShownTurns = 2
    MaxCalls = 2
    MaxTexts = 1
    MaxReconnects = 1
    MaxQueue = 2
SYMMETRY Symmetry
SPECIFICATION PartsSpec
CHECK_DEADLOCK FALSE
INVARIANTS
    
    WorkspacesAgree
    TerminalIsConnected
    TargetIsWhole
    
    RowsAreCurrent
