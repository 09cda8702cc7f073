SPECIFICATION FairSpec
CONSTANTS
    Chains = {c1}
    Workers = {w1}
    Stops = {s1}
    Polls = {p1}
    NoChain = NoChain
    Datasets = 1
    Symbols = 1
    LockTTL = 3
    RefreshEvery = 1
    QuotaSleep = 3
    StopTTL = 4
    HostRecent = 2
    StuckAfter = 3
    LoadMax = 1
    ChunkMax = 1
    Faults = {"crash", "quota", "db"}
    MaxCrashes = 1
CHECK_DEADLOCK FALSE
PROPERTY OrphanHealed
PROPERTY StopObeyed
