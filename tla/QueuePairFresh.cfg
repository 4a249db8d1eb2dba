CONSTANTS
    Commands = {c1, c2}
    Units = {u1, u2}
    SQEntries = 3
    CQEntries = 2
    CidInit = 1
    CidMax = 4
    NoCmd = NoCmd
SPECIFICATION FairFreshSpec
INVARIANTS EveryCompletionIsClaimed CompleteMeansOwnResult OneHomePerCommand
PROPERTIES EveryCommandCompletes ImplementsService
