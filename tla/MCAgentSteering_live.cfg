\* Liveness: requests are answered and finished turns are reported.
CONSTANTS
    Clients = {c1, c2}
    Stream = Stream
    Free = Free
    MaxSteers = 1
    MaxSteps = 1
    MaxTurns = 2
SPECIFICATION FairSpec
CHECK_DEADLOCK FALSE
PROPERTY TurnsSettle
