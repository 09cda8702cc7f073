SPECIFICATION Spec
CONSTANTS
    MaxTrades = 3
    MaxPosts = 2
    Ids <- MCIds
    NoTrade = NoTrade
    Instruments <- MCInstruments
    CurrencyOf <- MCCurrency
    Currencies <- MCCurrencies
    Inputs <- MCInputs
    Files = {f1, f2}
    Rows <- MCRows
    NoFile = NoFile
    Requests = {r1, r2}
    Keys = {k}
    NoKey = NoKey
    NoEntry = NoEntry
    Deposits <- MCDeposits
    Fees = {1}
    Today = 3
SYMMETRY Symmetry
INVARIANT BalanceIsHistory
INVARIANT HoldingIsHistory
INVARIANT NoDoubleEntry
PROPERTY ShortOnlyByImport
PROPERTY ImplementsBook
CHECK_DEADLOCK FALSE
