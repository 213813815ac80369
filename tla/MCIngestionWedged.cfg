SPECIFICATION FairSpec
CONSTANTS
    NULL = NULL
    w1 = w1  w2 = w2
    e1 = e1  e2 = e2
    job = job  item = item  session = session
    Writer = {w1}
    Event = {e1}
    Doc = {}
    SourceOf <- Sources
    MaxCrashes = 0
    MaxVersion = 0
    MaxFailures = 1
PROPERTY EventsReachIndex
CHECK_DEADLOCK FALSE
