SPECIFICATION Spec
CONSTANTS
    Drives = {"d1", "d2"}
    MaxHostCalls = 6
    Bulky = {3}
    Vectors = {0, 1}
    MaxStarts = 3
    MaxCalls = 4
CHECK_DEADLOCK FALSE
INVARIANTS TypeOK OrderlyUseSucceeds
PROPERTIES CompletionsAreCollected
