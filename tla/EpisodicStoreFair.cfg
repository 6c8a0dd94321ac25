\* One caller at a time under fairness: liveness, and what a sequential caller may rely on.
CONSTANTS
    Ids = {i1, i2}
    Clients = {c1}
    Topics = {k}
    NoTopic = NoTopic
    MaxRetries = 2
    BatchSize = 1
    DedupEnabled = FALSE
    MaxVer = 3
    MaxFaults = 1
SPECIFICATION FairSpec
INVARIANT SequentialKeyUnique
 
PROPERTY StoredIsIndexed
CHECK_DEADLOCK FALSE
