SPECIFICATION Spec
CONSTANTS
    Events = {e1, e2, e3}
    Tasks = {t1, t2}
    NoEvent = NoEvent
    Kinds = {"created", "updated", "deleted", "paid", "failed"}
    Outcomes = {"trialing", "incomplete", "incomplete_expired", "unpaid"}
    Rows = {1, 2}
    Faults = {"crash", "db"}
    MaxBreaks = 1
    MaxNow = 1
SYMMETRY Symmetry
INVARIANT GrantJustified
INVARIANT HandledOnce
INVARIANT NeverOvergrants
CHECK_DEADLOCK FALSE
