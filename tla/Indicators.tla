----------------------------- MODULE Indicators -----------------------------
(***************************************************************************)
(* The entry signals of a strategy, internal/engine/indicators.go and      *)
(* evaluator.go.  Every indicator fills a slice aligned with the candles   *)
(* from left to right, carrying a running value from one candle to the     *)
(* next, and an evaluator compares neighbouring entries; both are one step *)
(* here, taken per candle.  Evaluate runs one of the five evaluators, which*)
(* share nothing: they are carried side by side.                           *)
(*                                                                         *)
(* Means are kept as window sums and compared crosswise, the typical price *)
(* three times as large; Wilder's averages divide, rounding down where the *)
(* code keeps a float64 (exactly, with the prices of MCIndicators).        *)
(***************************************************************************)
EXTENDS Integers, Sequences, FiniteSets, FiniteSetsExt, SequencesExt

CONSTANTS
    Bars,                    \* the candles: [high, low, close, volume]
    Horizon,                 \* candles read at most (a bound of the model)
    ShortMA, LongMA,         \* defaultShortMA, defaultLongMA
    VWAPPeriod, Lookback,    \* defaultVWAPPeriod, defaultMomentumLookback
    SupertrendPer, SupertrendMult,
    RSIPeriod, Oversold, Overbought

ASSUME IndicatorsAssumption ==
    /\ {ShortMA, LongMA, VWAPPeriod, Lookback, SupertrendPer, RSIPeriod, Horizon,
        SupertrendMult} \subseteq Nat \ {0}
    /\ ShortMA < LongMA
    /\ {Oversold, Overbought} \subseteq Nat
    /\ 0 < Oversold /\ Oversold < Overbought /\ Overbought < 100
    /\ Bars \subseteq [high : Nat, low : Nat, close : Nat, volume : Nat]
    /\ \A c \in Bars : /\ 0 < c.low /\ c.low <= c.close /\ c.close <= c.high

VARIABLES
    candles,  \* the candles read, in chronological order
    ind,      \* the indicator slices, aligned with the candles
    signals   \* what each evaluator has emitted: [at, side]

vars == <<candles, ind, signals>>

Evaluators == {"ma_crossover", "supertrend", "rsi_oversold", "momentum", "vwap_crossover"}

\* What the running values are before the first candle.
Empty == [short |-> 0, long |-> 0, tpv |-> 0, vol |-> 0, gain |-> 0, loss |-> 0,
          atr |-> 0, upper |-> 0, lower |-> 0, st |-> 0, dir |-> 1, inBreakout |-> FALSE]

-----------------------------------------------------------------------------
(* Running values; i is the index of the candle just read.                 *)

\* Mutant: the value subtracted is still inside the window.
SlideEvictingEarly(sum, vals, i, period) ==
    sum + vals[i] - (IF i > period THEN vals[i - period + 1] ELSE 0)
Slide(sum, vals, i, period) ==
    sum + vals[i] - (IF i > period THEN vals[i - period] ELSE 0)

\* Wilder's average of the k-th sample x: a mean of the first ones, then smoothed.
Wilder(avg, x, k, period) ==
    CASE k < period -> avg + x
      [] k = period -> (avg + x) \div period
      [] k > period -> (avg * (period - 1) + x) \div period

Closes(cs) == [j \in DOMAIN cs |-> cs[j].close]
Volumes(cs) == [j \in DOMAIN cs |-> cs[j].volume]
TPVs(cs) == [j \in DOMAIN cs |-> (cs[j].high + cs[j].low + cs[j].close) * cs[j].volume]
Abs(n) == IF n < 0 THEN -n ELSE n

TrueRange(cs, i) ==
    LET c == cs[i]
    IN  IF i = 1 THEN c.high - c.low
        ELSE Max({c.high - c.low, Abs(c.high - cs[i - 1].close), Abs(c.low - cs[i - 1].close)})

Gain(cs, i) == Max({0, cs[i].close - cs[i - 1].close})
Loss(cs, i) == Max({0, cs[i - 1].close - cs[i].close})

-----------------------------------------------------------------------------
(* Supertrend: bands that only narrow, until the close breaks one.         *)

\* Mutant: the band follows the volatility both ways.
UpperBandUnlatched(basic, prev, prevClose) == basic
UpperBand(basic, prev, prevClose) ==
    IF basic < prev \/ prevClose > prev THEN basic ELSE prev
LowerBand(basic, prev, prevClose) ==
    IF basic > prev \/ prevClose < prev THEN basic ELSE prev

SeedDirection(close, upper) == IF close <= upper THEN 1 ELSE -1

Direction(dir, close, upper, lower) ==
    CASE dir = 1 -> IF close < lower THEN -1 ELSE 1
      [] OTHER -> IF close > upper THEN 1 ELSE -1

Supertrend(x, cs, i, atr) ==
    LET c == cs[i]
        mid == (c.high + c.low) \div 2
        basicUpper == mid + SupertrendMult * atr
        basicLower == mid - SupertrendMult * atr
        seed == i = SupertrendPer
        upper == IF seed THEN basicUpper ELSE UpperBand(basicUpper, x.upper, cs[i - 1].close)
        lower == IF seed THEN basicLower ELSE LowerBand(basicLower, x.lower, cs[i - 1].close)
        dir == IF seed THEN SeedDirection(c.close, upper)
                       ELSE Direction(x.dir, c.close, upper, lower)
    IN  IF i < SupertrendPer
        THEN [upper |-> 0, lower |-> 0, st |-> 0, dir |-> 1]
        ELSE [upper |-> upper, lower |-> lower, dir |-> dir,
              st |-> IF dir = 1 THEN lower ELSE upper]

-----------------------------------------------------------------------------
(* Momentum: one flag, and the high of the Lookback candles before.        *)

Window(i, period) == (i - period + 1)..i
PeriodHigh(cs, i) == Max({cs[j].high : j \in Window(i - 1, Lookback)})

Breakout(cs, i) == i > Lookback /\ cs[i].close > PeriodHigh(cs, i)
\* Mutant: a close at the high itself does not end the breakout.
FellBackBelow(cs, i) == i > Lookback /\ cs[i].close < PeriodHigh(cs, i)
FellBack(cs, i) == i > Lookback /\ cs[i].close <= PeriodHigh(cs, i)

Reading(x, cs) ==
    LET i == Len(cs)
        atr == Wilder(x.atr, TrueRange(cs, i), i, SupertrendPer)
        s == Supertrend(x, cs, i, atr)
    IN  [short |-> Slide(x.short, Closes(cs), i, ShortMA),
         long |-> Slide(x.long, Closes(cs), i, LongMA),
         tpv |-> Slide(x.tpv, TPVs(cs), i, VWAPPeriod),
         vol |-> Slide(x.vol, Volumes(cs), i, VWAPPeriod),
         gain |-> IF i = 1 THEN 0 ELSE Wilder(x.gain, Gain(cs, i), i - 1, RSIPeriod),
         loss |-> IF i = 1 THEN 0 ELSE Wilder(x.loss, Loss(cs, i), i - 1, RSIPeriod),
         atr |-> atr, upper |-> s.upper, lower |-> s.lower, st |-> s.st, dir |-> s.dir,
         inBreakout |-> ~FellBack(cs, i) /\ (Breakout(cs, i) \/ x.inBreakout)]

-----------------------------------------------------------------------------
(* Evaluators: x is the entry before, y the entry of the candle just read. *)

ShortAbove(x) == x.short * LongMA > x.long * ShortMA
CloseAbove(c, x) == 3 * c.close * x.vol > x.tpv
Rsi(x) == IF x.loss = 0 THEN <<100, 1>> ELSE <<100 * x.gain, x.gain + x.loss>>
Under(q, n) == q[1] < n * q[2]
Over(q, n) == q[1] > n * q[2]

Enters(x, cs, i) == Breakout(cs, i) /\ ~x.inBreakout

Buys(e, x, y, cs) ==
    LET i == Len(cs)
    IN  \/ e = "ma_crossover" /\ i > LongMA /\ ShortAbove(y) /\ ~ShortAbove(x)
        \/ e = "supertrend" /\ i > SupertrendPer /\ y.dir = 1 /\ x.dir = -1
        \/ e = "rsi_oversold" /\ i > RSIPeriod + 1
             /\ Under(Rsi(y), Oversold) /\ ~Under(Rsi(x), Oversold)
        \/ e = "momentum" /\ Enters(x, cs, i)
        \/ e = "vwap_crossover" /\ i > VWAPPeriod /\ x.vol > 0 /\ y.vol > 0
             /\ CloseAbove(cs[i], y) /\ ~CloseAbove(cs[i - 1], x)

Sells(e, x, y, cs) ==
    LET i == Len(cs)
    IN  \/ e = "ma_crossover" /\ i > LongMA /\ ~ShortAbove(y) /\ ShortAbove(x)
        \/ e = "supertrend" /\ i > SupertrendPer /\ y.dir = -1 /\ x.dir = 1
        \/ e = "rsi_oversold" /\ i > RSIPeriod + 1
             /\ Over(Rsi(y), Overbought) /\ ~Over(Rsi(x), Overbought)
        \/ e = "momentum" /\ FellBack(cs, i) /\ x.inBreakout
        \/ e = "vwap_crossover" /\ i > VWAPPeriod /\ x.vol > 0 /\ y.vol > 0
             /\ ~CloseAbove(cs[i], y) /\ CloseAbove(cs[i - 1], x)

Emitted(e, x, y, cs) ==
    CASE Buys(e, x, y, cs) -> <<[at |-> Len(cs), side |-> "BUY"]>>
      [] ~Buys(e, x, y, cs) /\ Sells(e, x, y, cs) -> <<[at |-> Len(cs), side |-> "SELL"]>>
      [] OTHER -> <<>>

Init ==
    /\ candles = <<>>
    /\ ind = <<>>
    /\ signals = [e \in Evaluators |-> <<>>]

ReadCandle ==
    /\ Len(candles) < Horizon
    /\ \E c \in Bars :
        LET x == IF ind = <<>> THEN Empty ELSE Last(ind)
            cs == Append(candles, c)
            y == Reading(x, cs)
        IN  /\ candles' = cs
            /\ ind' = Append(ind, y)
            /\ signals' = [e \in Evaluators |-> signals[e] \o Emitted(e, x, y, cs)]

Next == ReadCandle

Spec == Init /\ [][Next]_vars

-----------------------------------------------------------------------------
TypeOK ==
    /\ candles \in Seq(Bars)
    /\ Len(ind) = Len(candles)
    /\ \A k \in DOMAIN ind :
        /\ ind[k].dir \in {1, -1} /\ ind[k].inBreakout \in BOOLEAN
        /\ {ind[k].vol, ind[k].tpv, ind[k].gain, ind[k].loss, ind[k].atr} \subseteq Nat
    /\ \A e \in Evaluators : \A k \in DOMAIN signals[e] :
        signals[e][k].at \in DOMAIN candles /\ signals[e][k].side \in {"BUY", "SELL"}

N == Len(candles)
Now == Last(ind)
Sum(vals, lo, hi) ==
    LET upto[k \in 0..hi] == IF k < lo THEN 0 ELSE upto[k - 1] + vals[k]
    IN  upto[hi]
WindowSum(vals, period) == Sum(vals, Max({1, N - period + 1}), N)

(* The sums that slide along the candles are the sums of the candles in the *)
(* window: each leaves exactly when it is a whole period old (the second    *)
(* loops of SMA and RollingVWAP, whose tests only look at short series).    *)
SlidingSumsAreWindowSums ==
    N > 0 =>
        /\ Now.short = WindowSum(Closes(candles), ShortMA)
        /\ Now.long = WindowSum(Closes(candles), LongMA)
        /\ Now.tpv = WindowSum(TPVs(candles), VWAPPeriod)
        /\ Now.vol = WindowSum(Volumes(candles), VWAPPeriod)

(* A crossover is left before it is entered again: the signals of the       *)
(* moving averages, of Supertrend and of momentum alternate, those of       *)
(* momentum from a BUY on ("re-entry requires price to drop below the high  *)
(* and break out again", evaluateMomentum); RSI may repeat a side, but has  *)
(* come out of the zone in between.                                         *)
Alternates(s) == \A k \in 1..Len(s) - 1 : s[k].side # s[k + 1].side
SidesAlternate ==
    /\ \A e \in {"ma_crossover", "supertrend", "momentum"} : Alternates(signals[e])
    /\ signals["momentum"] # <<>> => Head(signals["momentum"]).side = "BUY"
    /\ LET s == signals["rsi_oversold"]
       IN  \A k \in 1..Len(s) - 1 :
            s[k].side = s[k + 1].side =>
                \E j \in s[k].at..s[k + 1].at :
                    IF s[k].side = "BUY" THEN ~Under(Rsi(ind[j]), Oversold)
                                         ELSE ~Over(Rsi(ind[j]), Overbought)

(* A candle far from the ones before it moves one band past the other: its  *)
(* close is then beyond both, on the wrong side of the line it switches to. *)
Caught(k) == ind[k].upper < candles[k].close /\ candles[k].close < ind[k].lower

(* The last signal says where the market is now: a strategy that follows    *)
(* the signals is long exactly when the mean of the last ShortMA closes is  *)
(* above that of the last LongMA, when the close is above every high of the *)
(* Lookback candles before, when the close is above the VWAP of the window  *)
(* (had every window some volume: a crossing next to a window without       *)
(* volume is lost), and on the right side of the Supertrend line (unless    *)
(* the candle was caught between crossed bands).                            *)
LastBuys(e) == Last(signals[e]).side = "BUY"
LastSignalTellsTheSide ==
    LET close == Last(candles).close
    IN  /\ signals["ma_crossover"] # <<>> =>
            (LastBuys("ma_crossover") <=>
                WindowSum(Closes(candles), ShortMA) * LongMA > WindowSum(Closes(candles), LongMA) * ShortMA)
        /\ signals["momentum"] # <<>> =>
            (LastBuys("momentum") <=> \A j \in Window(N - 1, Lookback) : close > candles[j].high)
        /\ /\ signals["vwap_crossover"] # <<>>
           /\ \A j \in VWAPPeriod..N : ind[j].vol > 0
           => (LastBuys("vwap_crossover") <=>
                3 * close * WindowSum(Volumes(candles), VWAPPeriod) > WindowSum(TPVs(candles), VWAPPeriod))
        /\ signals["supertrend"] # <<>> /\ ~Caught(N) =>
            IF LastBuys("supertrend") THEN close >= Now.st ELSE close <= Now.st

(* A strategy that only sees the signals knows where the market is, and     *)
(* never gets the same order twice for one crossing.                        *)
SignalsFollowTheMarket == LastSignalTellsTheSide /\ SidesAlternate

(* The Supertrend line is a trailing stop: while the direction is kept it   *)
(* never moves against it (the band conditions of Supertrend look at the    *)
(* close before).  The first line is set apart: its direction is chosen     *)
(* from the upper band alone, whatever the close is to the lower one.  So   *)
(* is the candle after one caught between crossed bands.                    *)
SupertrendRatchets ==
    \A k \in (SupertrendPer + 1)..(N - 1) :
        ind[k].dir = ind[k + 1].dir /\ ~Caught(k) =>
            IF ind[k].dir = 1 THEN ind[k + 1].st >= ind[k].st ELSE ind[k + 1].st <= ind[k].st
=============================================================================
