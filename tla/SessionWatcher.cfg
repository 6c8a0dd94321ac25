\* Two paths, two lines, one renaming or truncation, one crash.
CONSTANTS
    Files = {f, g}
    MaxLines = 2
    MaxFileOps = 1
    MaxRestarts = 1
SPECIFICATION SessionSpec
 
INVARIANT PassedIsIngested
PROPERTY LinesAreRead
CHECK_DEADLOCK FALSE
