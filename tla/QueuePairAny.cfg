CONSTANTS
    Commands = {c1, c2, c3}
    Units = {u1, u2}
    SQEntries = 3
    CQEntries = 2
    CidInit = 1
    CidMax = 4
    NoCmd = NoCmd
SPECIFICATION Spec
SYMMETRY Symmetry
CHECK_DEADLOCK FALSE
INVARIANTS TypeOK PhaseTellsPending HostHeadIsBehind CompletionAssertionsHold
PROPERTY NoEntryIsLost
