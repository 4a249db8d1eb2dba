SPECIFICATION ConcurrentSpec
CONSTANTS
    MaxPerLoop = 2
    Units = {"host", "sim"}
    Commands = {c1, c2}
    NoCmd = NoCmd
    SQEntries = 3
    CQEntries = 3
    CidInit = 1
    CidMax = 4
INVARIANTS NobodyDeletesAdminQueue
CHECK_DEADLOCK FALSE
