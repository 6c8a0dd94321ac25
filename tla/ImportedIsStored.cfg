CONSTANTS
    Machines = {a, b}
    Ids = {x, y}
    PageLimit = 1
    MaxVersion = 2
    MaxChunks = 2
    MaxArchives = 1
    NoMachine = nobody
SPECIFICATION TransferSpec
PROPERTY ImportedIsStored
CHECK_DEADLOCK FALSE
