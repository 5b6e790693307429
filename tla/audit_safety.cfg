CONSTANTS
    strict = strict
    lax = lax
    e1 = e1
    e2 = e2
    e3 = e3
    k1 = k1
    k2 = k2
    s1 = s1
    s2 = s2
    Runs = {strict, lax}
    CheckpointChain = checkpointChain
    Events = {e1, e2, e3}
    RunOf <- MCRunOf
    FailRun = {strict}
    IgnoreDuplicates = {lax}
    LockKeys = {k1, k2}
    LockKey <- MCLockKey
    Sessions = {s1, s2}
    Nobody = nobody
    LocalFile = TRUE
    MaxEmits = 2
    MaxCheckpoints = 2
SPECIFICATION Spec
SYMMETRY MCSymmetry
INVARIANTS
    TypeOK
    LedgerVerifies
    FailRunRecords
PROPERTY CheckpointCoversPrefix
CHECK_DEADLOCK FALSE
