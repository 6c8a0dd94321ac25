\* Two watcher processes, two files that may share a name, two attempts, one stop or crash.
CONSTANTS
    Docs = {d1, d2}
    NoDoc = NoDoc
    Stems = {a}
    Watchers = {w1, w2}
    Messages = 1
    _MAX_RETRIES = 2
    MaxStops = 1
SPECIFICATION InboxSpec
SYMMETRY Symmetry
 
INVARIANT GivenUpAfterRetries
PROPERTY InboxDelivers
CHECK_DEADLOCK FALSE
