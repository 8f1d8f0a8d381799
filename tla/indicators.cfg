SPECIFICATION Spec
CONSTANTS
    Bars <- MCBars
    Horizon = 7
    ShortMA = 2
    LongMA = 3
    VWAPPeriod = 2
    Lookback = 2
    SupertrendPer = 3
    SupertrendMult = 1
    RSIPeriod = 2
    Oversold = 30
    Overbought = 70
INVARIANTS
    SlidingSumsAreWindowSums
    SignalsFollowTheMarket
    SupertrendRatchets
CHECK_DEADLOCK FALSE
