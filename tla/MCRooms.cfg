SPECIFICATION MCSpec
CONSTANTS
    NULL = NULL
    t1 = t1  t2 = t2  c1 = c1  r1 = r1  m1 = m1  m2 = m2
    Thread = {t1, t2}
    LoreId = {1, 2}
    CharId = {c1}
    RoomId = {r1}
    LoreRow <- LoreRows
    LoreEdit <- LoreEdits
    CharRow <- CharRows
    CharEdit <- CharEdits
    Word = {m1, m2}
    Budget = {1, 2, 3}
    MaxMessages = 1
INVARIANTS TypeOK BroadcastOnce MatchedByRank
PROPERTIES DeletedStaysDeleted EditsKeepOtherFields
CHECK_DEADLOCK FALSE
