SPECIFICATION FairSpec
CONSTANTS
    NULL = NULL
    c1 = c1  c2 = c2
    Client = {c1, c2}
    MaxClients = 1

PROPERTY Drains
CHECK_DEADLOCK FALSE
