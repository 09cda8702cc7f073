\* Owners and jobs in plenty, or clients and workers in plenty.
CONSTANTS
    line = line
    flow = flow
    cap = cap
    s1 = s1
    s2 = s2
    w1 = w1
    w2 = w2
    ann = ann
    bob = bob
    Alerts = {line, flow, cap}
    Stateful = {line}
    Daily = {flow}
    Ticks = {t1, t2}
    Streak = Streak
    Edits = {e1}
    Levels = {2, 3}
    Prices = {1, 3}
    NoAlert = NoAlert
    NoTick = NoTick
    MaxFirings = 2
    Budgets <- MCBudgets
    Workers = {w1}
    Sockets = {s1, s2}
    Home <- MCHome
    Users = {ann, bob}
    NoUser = NoUser
    Notes <- MCNotes
    Recipient <- MCRecipient
    Frame = Frame
    QueueMax = 2
    Limits <- MCBudgets
    Owns <- MCOwns
SPECIFICATION Spec
INVARIANT SideFitsLevel
INVARIANT ShownIsRecorded
PROPERTY TriggeredIsFinal
PROPERTY SubscriptionIsPolled
CHECK_DEADLOCK FALSE
