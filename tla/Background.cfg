CONSTANTS
    Originals = {a, b}
    Summaries = {s, t}
    NoSummary = none
    Runners = {scheduler, cli}
    MinCluster = 2
    Dedup = TRUE
    MaxMishaps = 1
    Pids = {p1, p2}
    NoPid = nopid
    Torn = torn
    Commands = {c1, c2}
    WatchSessions = TRUE
    MaxCommands = 3
    MaxEnds = 2
    Order <- MCOrder
    Interval <- MCInterval
    NeedsLlm = {"consolidate"}
    MaxTime = 6
    MaxFaults = 1
    MaxErrors = 1
    SessionIds = {s1, s2, s3}
    NoSession = nosession
    Users = {u1, u2}
    FailureThreshold = 3
    Cooldown = 1
    Window = 5
    BackoffMax = 4
    MaxFailures = 4
SPECIFICATION BackgroundSpec
INVARIANT HiddenHasHeir
 
INVARIANT DaemonIsKnown
INVARIANT SessionsAccounted
 
PROPERTY OverdueTasksRun
CHECK_DEADLOCK FALSE
SYMMETRY Symm
