SPECIFICATION SettledSpec
CONSTANTS
    Memories = {m1, m2, m3, m4}
    None = None
INVARIANTS TypeOK ReadyMeansSameQueues ConfigurationIsPrivate
PROPERTIES EnableReturns DisableReturns FlrDisables
