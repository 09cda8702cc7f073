SPECIFICATION FairSpec
CONSTANTS
    Events = {e1, e2}
    Tasks = {t1}
    NoEvent = NoEvent
    Kinds = {"created", "updated", "paid"}
    Outcomes = {"incomplete", "active"}
    Rows = {1, 2}
    Faults = {"db"}
    MaxBreaks = 1
    MaxNow = 0
PROPERTY EventProcessed
CHECK_DEADLOCK FALSE
