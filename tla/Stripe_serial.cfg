SPECIFICATION FairSpec
CONSTANTS
    Events = {e1, e2, e3}
    Tasks = {t1}
    NoEvent = NoEvent
    Kinds = {"created", "updated", "deleted", "paid", "failed"}
    Outcomes = {"incomplete", "active"}
    Rows = {1, 2}
    Faults = {"crash", "db"}
    MaxBreaks = 1
    MaxNow = 0
INVARIANT OneRow
PROPERTY FailedRecovers
CHECK_DEADLOCK FALSE
