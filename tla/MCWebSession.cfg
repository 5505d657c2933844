\* Two operations overlap, on a local service with two projects or directly.
CONSTANTS
    p1 = p1
    p2 = p2
    s1 = s1
    s2 = s2
    s3 = s3
    f1 = f1
    Projects = {p1, p2}
    Direct = "direct"
    Sessions = {s1, s2, s3, f1}
    Known <- MCKnown
    Tasks = {1, 2}
    MaxOps = 2
    None = None
SPECIFICATION Spec
SYMMETRY Symmetry
CHECK_DEADLOCK FALSE
INVARIANT SelectionHolds
