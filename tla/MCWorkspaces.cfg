\* Three requests open, remove and re-register a project.
CONSTANTS
    Requests = {r1, r2, r3}
    Tasks = {t1, t2, t3}
    None = None
SPECIFICATION FairSpec
CHECK_DEADLOCK FALSE
INVARIANTS
    StartsAreShared
    RuntimesAccounted
PROPERTY RequestsAnswered
