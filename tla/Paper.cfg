\* Two orders of any of two kinds, a request and the job run again and again.
SPECIFICATION FairSpec
CONSTANTS
    Requests = {r1}
    Jobs = {j1}
    NoTask = NoTask
    NoBook = NoBook
    Orders = {a, b}
    NoTerms = NoTerms
    NoQuote = NoQuote
    Keys = {k}
    Prices = {2}
    Caps = {2}
    Unit = 4
    Fee = 1
    Slip = 1
    Cash = 25
    Held = 1
    MaxMoves = 1
    Batch = 2
    Terms <- MCTerms
    Quotes <- MCQuotes
    Amounts <- MCAmounts
INVARIANT ReservationsCovered
INVARIANT KillSwitch
INVARIANT LiquidityOnce
PROPERTY FinalIsFinal
PROPERTY DayOrdersEnd
CHECK_DEADLOCK FALSE
