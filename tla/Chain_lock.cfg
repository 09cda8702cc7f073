SPECIFICATION Spec
CONSTANTS
    Chains = {c1, c2}
    Workers = {w1, w2}
    Stops = {}
    Polls = {}
    NoChain = NoChain
    Datasets = 1
    Symbols = 2
    LockTTL = 2
    RefreshEvery = 1
    QuotaSleep = 3
    StopTTL = 4
    HostRecent = 2
    StuckAfter = 3
    LoadMax = 1
    ChunkMax = 1
    Faults = {"crash", "db"}
    MaxCrashes = 1
SYMMETRY Symmetry
CHECK_DEADLOCK FALSE
INVARIANT OneChain
INVARIANT LockedWhileLive
INVARIANT NoRowLeftRunning
PROPERTY ResetOnlyStuck
