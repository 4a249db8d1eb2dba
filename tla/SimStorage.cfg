SPECIFICATION Spec
CONSTANTS
    PageSize = 2
    Namespaces = {1, 2}
    NumLbas <- MCNumLbas
    BlockSize <- MCBlockSize
    PowerStates = {0, 3}
    Slbas = {0, 1, 53, 107}
    Lengths = {1, 2, 3, 5}
    Sweeps <- MCSweeps
    MaxCalls = 3
CHECK_DEADLOCK FALSE
INVARIANTS TypeOK 
PROPERTIES ImplementsBlockStore SweepReadsEveryBlock
