\* Two callers, two names in two spellings, three operations, one failure or restart.
CONSTANTS
    Names = {a, b}
    Spellings = {s1, s2}
    Clients = {c1, c2}
    MaxCalls = 3
    MaxFaults = 1
SPECIFICATION Spec
SYMMETRY Symmetry
 
 
INVARIANT ReadersSeeDurable
CHECK_DEADLOCK FALSE
