SPECIFICATION FairSpec
CONSTANTS
    Runs = {r1, r2}
    Workers = {w1}
    Questions = {q1, q2}
    Injectors = {i1}
    Concluders = {}
    Editors = {e1}
    RosterSizes = {1, 2}
    Limit = 2
    MaxPending = 1
    TurnMax = 1
    GatherMax = 1
    StaleAfter = 2
    Faults = {"crash", "db"}
    SerialPosts = TRUE
    MaxRounds = 2
    MaxCrashes = 1
INVARIANT OneRunner
PROPERTY RoundSettles
PROPERTY AbandonedRecovers
PROPERTY StaleMeansDead
CHECK_DEADLOCK FALSE
