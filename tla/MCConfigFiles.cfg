SPECIFICATION Spec
CONSTANTS
    NULL = NULL  BAD = BAD  FLIP = FLIP
    t1 = t1  t2 = t2  a1 = a1  s1 = s1  j1 = j1
    Thread = {t1, t2}
    Agent = {a1}
    Setting = {s1}
    Job = {j1}
    Initial <- InitialFiles
    Edit <- Edits
    Written <- RuntimeFiles
    MaxAudits = 1
    MaxEdits = 2
SYMMETRY ThreadSymmetry
CONSTRAINT TwoFilesChange
INVARIANTS TypeOK EditsAddUp AuditExplainsFile
CHECK_DEADLOCK FALSE
