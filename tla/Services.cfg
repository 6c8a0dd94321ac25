\* Two of most things; what each bound lets happen is in the README.
CONSTANTS
    Items = {i, j}
    NoItem = noitem
    NoEntry = noentry
    Clients = {r1, r2}
    MaxFaults = 1
    Connections = {"k1", "k2", "k3", "k4"}
    Tenant <- MCTenant
    User <- MCUser
    AuthEnabled = TRUE
    MaxCommands = 2
    Providers = {"m", "r"}
    Kind <- MCKind
    Questions = {q1, q2}
    NoQuestion = noquestion
    MaxConsecutiveErrors = 2
    Memories = {"m1", "m2"}
    Nodes = {"n"}
    Content <- MCContent
    Confidence <- MCConfidence
    TopK = 1
    RerankMin = 2
    RerankTop = 1
    RerankFloor = 1
    Pending = pending
    Failed = failed
    Processes = {p1, p2}
    ProviderNames = {"m"}
    ApiKeys = {"a", "b", "c"}
    KeyName <- MCKeyName
    Overlay = "unset"
    Exported = TRUE
    MaxChanges = 4
    Agents = {"claude", "aider"}
    Format <- MCFormat
    Runs = {u1}
    MaxEdits = 2
    Machines = {a, b}
    Ids = {x, y}
    PageLimit = 1
    MaxVersion = 2
    MaxChunks = 2
    MaxArchives = 1
    NoMachine = nobody
    Fronts = {f, g}
    Notes = {n1, n2}
    Entities = {e}
    NoOne = noone
    Turns = {"t1", "t2"}
    Facts = {"f", "g"}
    Told <- MCTold
    ChunkSize = 4
    Junk = {3, 4, 5, 6}
    MaxMessages = 7
    MaxRetries = 2
    Keys = {"a", "b"}
    Spellings = {"A", "x"}
SPECIFICATION ServicesSpec
INVARIANT CachedSeesWritten
INVARIANT EveryListenerHears
INVARIANT HalfMadeHasOpener
 
 
INVARIANT KeysKept
 
INVARIANT SyncedIsInAChunk
INVARIANT OneBrain
INVARIANT ClosedStaysClosed
INVARIANT NothingSaidIsLost
SYMMETRY Symm
CHECK_DEADLOCK FALSE
