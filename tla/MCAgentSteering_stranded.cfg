\* Expected violation: a failed turn leaves its steered messages pending.
CONSTANTS
    Clients = {c1}
    Stream = Stream
    Free = Free
    MaxSteers = 1
    MaxSteps = 1
    MaxTurns = 1
SPECIFICATION Spec
CHECK_DEADLOCK FALSE
INVARIANT NoStrandedSteering
