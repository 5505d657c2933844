SPECIFICATION Spec
CONSTANTS
    Context = 1
    Limit = 6
    MaxScript = 8
    MaxLines = 6
    MaxKept = 6
    MaxBytes = 14
    PreviewLines = 5
    Collapsed = 5
    MaxShown = 10
    ColumnWidths = {1, 5}
    MaxOutput = 8
    Sessions = {s1}
    Paths = {1, 2}
    Queries = {{1, 2}, {2}}
    NoValue = NoValue
    MaxRecords = 1
    MaxChanges = 2
    MaxCalls = 2
    MaxText = 1
    Peers = {s1, s2}
    MaxNavEvents = 3
    MaxCommands = 2
    MaxStarts = 3
    MaxQueued = 1
    Delegated = {1}
    MaxRows = 1
    MinVisible = 1
    RevealDelay = 1
    MaxEvents = 4
    MaxTime = 2
    JoinCalls = {1}
    MaxLog = 6
    MaxJoinTurns = 2
    MaxSteers = 1
    MaxDrops = 1
    Heading = Heading
    LineBreak = LineBreak
    MaxWord = 2
    CallIds = {i1, i2}
    Delay = 1
    Hold = 1
    MaxParts = 3
    MaxShownSteps = 2
    MaxLoads = 1
    MaxReplay = 2
    MaxItems = 4
    MaxNotes = 1
    MaxSwitches = 1
    MaxWire = 3
    MaxReplayWord = 3
SYMMETRY Symmetry
INVARIANTS
    EditsAreShown
    OutputIsAccounted
    PromptIsAnswered
    
    
    JoinShowsAll
    AnswerIsShown
    
PROPERTIES
    PanelIsUsable
    ActivityIsShown
CHECK_DEADLOCK FALSE
