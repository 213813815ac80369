SPECIFICATION StoreSpec
CONSTANTS
    NULL = NULL
    w1 = w1  w2 = w2  p1 = p1  p2 = p2  b1 = b1  b2 = b2
    n1 = n1  n2 = n2  t1 = t1  t2 = t2
    WorldId = {w1, w2}
    PlayId = {p1, p2}
    BranchId = {b1, b2}
    NodeId = {n1, n2}
    Triple = {t1, t2}
    SubjectPredicate <- SamePair
    Proposed <- ProposedPatches
    Patch <- Patches
    MaxRevs = 3
    MaxConflicts = 1
SYMMETRY Symmetry
INVARIANTS FactsStayInWorld SnapshotsMatchValidity HeadMatchesSnapshot NoCommitLost HistoryIsWalk PreviewMatchesCommit NoDiffNoMatter SilentGateKeepsOneValue
PROPERTY KeepsLinearHistory
CHECK_DEADLOCK FALSE
