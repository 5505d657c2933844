\* Three clients, nobody dies or is slow.
CONSTANTS
    Clients = {c1, c2, c3}
    Servers = {o, s1, s2}
    Outdated = {o}
    Ops = {"ensure", "stop"}
    MayCrash = FALSE
    MayAge = FALSE
    MaySlow = FALSE
    None = None
SPECIFICATION Spec
SYMMETRY Symmetry
CHECK_DEADLOCK FALSE
INVARIANTS
    LockAndRegistryHold
    ServersAreAccounted
