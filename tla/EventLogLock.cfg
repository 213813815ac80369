SPECIFICATION LogSpec
CONSTANTS
    NULL = NULL
    Writer = {w1, w2}
    Event = {e1, e2, e3}
    MaxCrashes = 1
INVARIANT Exclusive
CHECK_DEADLOCK FALSE
