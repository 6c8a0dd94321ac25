\* One caller beside the drain and the maintenance calls; every page holds all ids.
CONSTANTS
    Ids = {i1, i2}
    Clients = {c1}
    Topics = {}
    NoTopic = NoTopic
    MaxRetries = 1
    BatchSize = 1
    DedupEnabled = FALSE
    MaxVer = 2
    MaxFaults = 1
    ScrollLimit = 2
    PageLimit = 2
SPECIFICATION MSpec
SYMMETRY Symmetry
INVARIANT AcceptedDurable
INVARIANT DedupKeepsWinners
 
CHECK_DEADLOCK FALSE
