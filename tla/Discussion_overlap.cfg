SPECIFICATION Spec
CONSTANTS
    Runs = {r1, r2}
    Workers = {w1}
    Questions = {q1}
    Injectors = {i1}
    Concluders = {c1}
    Editors = {e1}
    RosterSizes = {1, 2}
    Limit = 3
    MaxPending = 3
    TurnMax = 0
    GatherMax = 1
    StaleAfter = 0
    Faults = {"crash", "delete"}
    SerialPosts = FALSE
    MaxRounds = 1
    MaxCrashes = 1
SYMMETRY Symmetry
INVARIANT RoundsOwned
INVARIANT DenseTurns
INVARIANT WorkIsPaid
INVARIANT InjectsLandLast
INVARIANT QuotaBalances
INVARIANT AnsweredOnce
CHECK_DEADLOCK FALSE
