SPECIFICATION MCSpec
CONSTANTS
    NULL = NULL
    w1 = w1  w2 = w2
    e1 = e1  e2 = e2
    job = job  item = item  session = session
    Writer = {w1, w2}
    Event = {e1, e2}
    Doc = {job, item, session}
    SourceOf <- Sources
    MaxCrashes = 1
    MaxVersion = 2
    MaxFailures = 2
INVARIANTS TypeOK OffsetAtLineStart NothingSkipped CopiesBounded ExclusiveUntilCrash
PROPERTIES AppendedIndexed TransactionEnds TablesFollow
CHECK_DEADLOCK FALSE
