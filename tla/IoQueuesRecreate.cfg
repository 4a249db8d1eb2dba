SPECIFICATION Spec
CONSTANTS
    NoQueue = NoQueue
    Qids = {1, 2, 3}
    Entries = 3
    MaxEndings = 1
INVARIANT CompletionsReachHost
