SPECIFICATION Spec
CONSTANTS
    Chains = {c1, c2}
    Workers = {w1, w2}
    Stops = {}
    Polls = {}
    NoChain = NoChain
    Datasets = 1
    Symbols = 2
    LockTTL = 3
    RefreshEvery = 1
    QuotaSleep = 3
    StopTTL = 6
    HostRecent = 4
    StuckAfter = 5
    LoadMax = 2
    ChunkMax = 2
    Faults = {"quota"}
    MaxCrashes = 1
INVARIANT OneChain
CHECK_DEADLOCK FALSE
