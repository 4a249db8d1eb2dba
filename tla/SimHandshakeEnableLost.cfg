SPECIFICATION FairSpec
CONSTANTS
    Memories = {m1, m2, m3, m4}
    None = None
PROPERTY EnableReturns
CHECK_DEADLOCK FALSE
