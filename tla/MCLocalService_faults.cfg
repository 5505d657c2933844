\* Clients and servers die, locks age, answers come late.
CONSTANTS
    Clients = {c1, c2}
    Servers = {s1}
    Outdated = {}
    Ops = {"ensure", "run", "stop"}
    MayCrash = TRUE
    MayAge = TRUE
    MaySlow = TRUE
    None = None
SPECIFICATION FairSpec
CHECK_DEADLOCK FALSE
PROPERTY OperationsEnd
