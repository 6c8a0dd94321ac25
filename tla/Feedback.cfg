\* Two callers and a search on one memory; two processors, so that calls may share one
\* or not.  One unit of confidence is 0.05: 0.5, +0.15, -0.2, +0.1 and the limit 0.15.
CONSTANTS
    Mems = {m1}
    Callers = {c1, c2}
    Searchers = {s1}
    Processors = {p1, p2}
    MaxConf = 20
    InitConf = 10
    Boost = 3
    Penalty = 4
    RecallBoost = 2
    Threshold = 3
    MinConf = 3
    MaxCalls = 4
    MaxSearches = 1
    MaxFaults = 1
SPECIFICATION FairSpec
INVARIANT AutoDeleteJustified
INVARIANT OneLockLosesNothing
PROPERTY FeedbackReturns
CHECK_DEADLOCK FALSE
