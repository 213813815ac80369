SPECIFICATION Spec
CONSTANTS
    NULL = NULL
    w1 = w1  w2 = w2  p1 = p1  b1 = b1  b2 = b2
    n1 = n1  n2 = n2  c1 = c1  c2 = c2
    WorldId = {w1}
    PlayId = {p1}
    BranchId = {b1, b2}
    NodeId = {n1}
    Triple = {}
    Patch <- ClientPatches
    Thread = {c1, c2}
    MaxRevs = 3
    MaxConflicts = 0
PROPERTY MergeAdvancesTarget
CHECK_DEADLOCK FALSE
