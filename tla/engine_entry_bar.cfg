SPECIFICATION Spec
CONSTANTS
    Horizon = 4
    Interval = 1
    Bars <- MCBars
    TargetPct = 50
    StopLossPct = 50
    TimeExit = 2
    Capital = 1000
    Qty = 1
    SlippagePct = 1
    Rates <- MCRates
INVARIANT
    ExitsOnEveryBar
CHECK_DEADLOCK FALSE
