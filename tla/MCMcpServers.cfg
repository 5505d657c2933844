\* Two coroutines change the server while a call is made.
CONSTANTS
    Calls = {q1}
    Workers = {w1, w2}
    Conns = {k1, k2, k3}
    None = None
SPECIFICATION FairSpec
CHECK_DEADLOCK FALSE
INVARIANTS
    MapsAgree
    ConnectionsAccounted
PROPERTY CallsAndChangesEnd
