SPECIFICATION FairSpec
CONSTANTS
    NoQueue = NoQueue
    Qids = {1, 2, 3}
    Entries = 3
    MaxEndings = 1
INVARIANTS TypeOK SameDirectory CallsSucceed
           HostDirectoryIsWhole SubmissionsReachSimulator
PROPERTY EveryQueueHasItsTurn
CHECK_DEADLOCK FALSE
