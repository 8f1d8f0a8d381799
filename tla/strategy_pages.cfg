SPECIFICATION PagesSpec
CONSTANTS
    Days <- MCDays
    Batches <- MCBatches
    Runs <- MCRuns
    Owners = {u, v}
    NoOwner = NoOwner
    Requests = {q1, q2}
    Signal = "index"
    Trade = "future"
SYMMETRY Interchangeable
INVARIANTS
    DateLimitIsCurrent
    LastBacktestMovesForward
    TradeStreamCoversSignals
CHECK_DEADLOCK FALSE
