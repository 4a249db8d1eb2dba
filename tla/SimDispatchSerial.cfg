SPECIFICATION SerialSpec
CONSTANTS
    MaxPerLoop = 2
    Units = {"host", "sim"}
    Commands = {c1, c2}
    NoCmd = NoCmd
    SQEntries = 3
    CQEntries = 2
    CidInit = 1
    CidMax = 3
INVARIANTS CompletedOnReturn RaisesOnlyWhenFull 
PROPERTIES ImplementsQueuePair CallsEnd
CHECK_DEADLOCK FALSE
