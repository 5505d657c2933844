\* Two requests race two step boundaries, an abort and a follow-up turn.
CONSTANTS
    Clients = {c1, c2}
    Stream = Stream
    Free = Free
    MaxSteers = 3
    MaxSteps = 2
    MaxTurns = 2
SPECIFICATION Spec
SYMMETRY Symmetry
CHECK_DEADLOCK FALSE
INVARIANTS
    
    CancelledNeverDelivered
    ViewInSync
