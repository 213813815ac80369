SPECIFICATION Spec
CONSTANTS
    NULL = NULL
    w1 = w1  w2 = w2  p1 = p1  b1 = b1  b2 = b2
    c1 = c1  c2 = c2  k1 = k1  k2 = k2
    WorldId = {w1, w2}
    PlayId = {p1}
    BranchId = {b1, b2}
    NodeId = {}
    Triple = {}
    Patch <- Patches
    CommitId = {c1, c2}
    Worker = {k1, k2}
    MaxRevs = 3
    MaxConflicts = 1
SYMMETRY Symmetry
INVARIANTS AppliedAtMostOnce OutcomesBacked RetryConflicts
CHECK_DEADLOCK FALSE
