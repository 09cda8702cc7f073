SPECIFICATION MCSpec
CONSTANTS
    Sweeps = {a, b, c}
    Tasks = {t1, t2}
    Cancels = {k}
    NoSweep = NoSweep
    Days = 4
    TrainWindow = 1
    TestWindow = 1
    Folds = 2
    Production = {1, 2}
    Concurrency = 1
    MaxProduction = 2
    Walks = 1
    MaxFaults = 1
    Fits = {f1, f2, f3}
    Rollbacks = {r1, r2}
    NoFit = NoFit
SYMMETRY Symmetry
INVARIANT OutOfSample
INVARIANT CompletedIsWhole
INVARIANT NoPile
INVARIANT OneActive
 
CHECK_DEADLOCK FALSE
