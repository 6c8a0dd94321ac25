\* Two concurrent callers, two ids for two texts, one key, three failures.
\* The callers stop at MaxVer texts, so a quiet store is not a deadlock of the code.
CONSTANTS
    Ids = {i1, i2}
    Clients = {c1, c2}
    Topics = {k}
    NoTopic = NoTopic
    MaxRetries = 2
    BatchSize = 1
    DedupEnabled = TRUE
    MaxVer = 2
    MaxFaults = 3
SPECIFICATION Spec
SYMMETRY Symmetry
INVARIANT TypeOK
INVARIANT NoStrandedRow
INVARIANT OneIdPerText
PROPERTY ResurrectionHasACause
PROPERTY LedgerKept
CHECK_DEADLOCK FALSE
