------------------------------- MODULE Engine -------------------------------
(***************************************************************************)
(* The backtest engine, internal/engine: RunBacktest schedules the signals *)
(* of the strategy and walks over the trade-side candles; ComputeTradeStats *)
(* and BuildChartData derive the figures shown to the user from the closed *)
(* trades.  One step is one iteration of a loop: a signal scheduled, a     *)
(* candle reached, a signal executed.                                      *)
(*                                                                         *)
(* Time is counted in slots; the trade stream may miss some of them.       *)
(* Money is an integer; a product with a rate is rounded down where the    *)
(* code keeps a float64.  Candles are chosen as the walk reaches them: the *)
(* loop never looks at a later one.                                        *)
(***************************************************************************)
EXTENDS Integers, Sequences, FiniteSets, FiniteSetsExt, SequencesExt

CONSTANTS
    Horizon,      \* the candles lie in slots 1..Horizon
    Interval,     \* the strategy's candle interval, in slots
    Bars,         \* the OHLC records a trade candle may have
    TargetPct,    \* percent, 0 for a strategy without target
    StopLossPct,  \* percent, 0 for a strategy without stop loss
    TimeExit,     \* slots, 0 for a strategy without time exit
    Capital, Qty, SlippagePct,
    Rates         \* charges per 10,000 of turnover, cap per leg, GST percent

ASSUME EngineAssumption ==
    /\ Horizon \in Nat \ {0} /\ Interval \in Nat \ {0}
    /\ Bars \subseteq [open : Nat, high : Nat, low : Nat, close : Nat]
    /\ \A b \in Bars : /\ 0 < b.low /\ b.low <= b.open /\ b.low <= b.close
                       /\ b.open <= b.high /\ b.close <= b.high
    /\ {TargetPct, StopLossPct, TimeExit, SlippagePct} \subseteq Nat
    /\ Capital \in Nat \ {0} /\ Qty \in Nat \ {0}
    /\ Rates \in [brokerage : Nat, cap : Nat, exchange : Nat, gst : Nat, stt : Nat, stamp : Nat]

VARIABLES
    stamps,   \* the timestamps of the trade candles, ascending
    signals,  \* the evaluator's signals in time order: [ts, side]
    cursor,   \* scheduleSignals: the next signal, matchTradeIdx, executionTradeIdx
    queue,    \* scheduledSignals: [sig, exec]
    sigIdx,   \* how many of them the walk has executed
    bars,     \* the trade candles walked over so far
    book,     \* open trade, closed trades, equity, its peak, worst drawdown
    result    \* the BacktestResult with its stats and chart, once returned

vars == <<stamps, signals, cursor, queue, sigIdx, bars, book, result>>

Slots == 1..Horizon
Sides == {"BUY", "SELL"}
None == [side |-> "NONE"]

-----------------------------------------------------------------------------
(* Scheduling: two indices move along the trade stream while the signals   *)
(* are taken in order.                                                     *)

\* The first index from i on whose candle is not before t, or past the end.
Forward(i, t) == Min({k \in i..Len(stamps) : stamps[k] >= t} \cup {Len(stamps) + 1})

\* Mutant: executed on the very bar whose close produced the signal.
EarliestAtSignal(sig) == sig.ts
EarliestExecution(sig) == sig.ts + Interval

\* A signal past the last candle, or with no candle to execute it on, ends the
\* loop; one without a candle of its own is passed over.
ScheduleSignal ==
    /\ cursor.sig <= Len(signals)
    /\ LET sig == signals[cursor.sig]
           m == Forward(cursor.match, sig.ts)
           x == Forward(Max({cursor.exec, m}), EarliestExecution(sig))
       IN  \/ /\ m > Len(stamps)
              /\ cursor' = [cursor EXCEPT !.sig = Len(signals) + 1, !.match = m]
              /\ queue' = queue
           \/ /\ m <= Len(stamps) /\ stamps[m] # sig.ts
              /\ cursor' = [cursor EXCEPT !.sig = @ + 1, !.match = m]
              /\ queue' = queue
           \/ /\ m <= Len(stamps) /\ stamps[m] = sig.ts /\ x > Len(stamps)
              /\ cursor' = [sig |-> Len(signals) + 1, match |-> m, exec |-> x]
              /\ queue' = queue
           \/ /\ m <= Len(stamps) /\ stamps[m] = sig.ts /\ x <= Len(stamps)
              /\ cursor' = [sig |-> cursor.sig + 1, match |-> m, exec |-> x]
              /\ queue' = Append(queue, [sig |-> sig, exec |-> stamps[x]])
    /\ UNCHANGED <<stamps, signals, sigIdx, bars, book, result>>

-----------------------------------------------------------------------------
(* Closing a trade: exit rules, charges, and the running account.          *)

Up(price, pct) == (price * (100 + pct)) \div 100
Down(price, pct) == (price * (100 - pct)) \div 100

HitsTarget(tr, b) ==
    /\ TargetPct # 0
    /\ IF tr.side = "BUY" THEN b.high >= Up(tr.entry, TargetPct)
                          ELSE b.low <= Down(tr.entry, TargetPct)
HitsStop(tr, b) ==
    /\ StopLossPct # 0
    /\ IF tr.side = "BUY" THEN b.low <= Down(tr.entry, StopLossPct)
                          ELSE b.high >= Up(tr.entry, StopLossPct)
HitsTime(tr, t) == TimeExit # 0 /\ t - tr.entryTs >= TimeExit

Exit(reason, price) == [reason |-> reason, price |-> price]
TargetPrice(tr) == IF tr.side = "BUY" THEN Up(tr.entry, TargetPct) ELSE Down(tr.entry, TargetPct)
StopPrice(tr) == IF tr.side = "BUY" THEN Down(tr.entry, StopLossPct) ELSE Up(tr.entry, StopLossPct)

\* Mutant: the stop of a short is compared with the low, as that of a long.
ExitAskingLowForStops(tr, b, t) ==
    CASE HitsTarget(tr, b) -> Exit("target", TargetPrice(tr))
      [] ~HitsTarget(tr, b) /\ StopLossPct # 0 /\ b.low <= Down(tr.entry, StopLossPct) ->
             Exit("stop_loss", StopPrice(tr))
      [] OTHER -> IF HitsTime(tr, t) THEN Exit("time_exit", b.close) ELSE Exit("", 0)
CheckExitConditions(tr, b, t) ==
    CASE HitsTarget(tr, b) -> Exit("target", TargetPrice(tr))
      [] ~HitsTarget(tr, b) /\ HitsStop(tr, b) -> Exit("stop_loss", StopPrice(tr))
      [] ~HitsTarget(tr, b) /\ ~HitsStop(tr, b) /\ HitsTime(tr, t) -> Exit("time_exit", b.close)
      [] OTHER -> Exit("", 0)

PerLegBrokerage(turnover) == Min({(turnover * Rates.brokerage) \div 10000, Rates.cap})

\* Securities transaction tax falls on the selling leg, stamp duty on the buying one.
Charges(side, entry, exit) ==
    LET in == entry * Qty
        out == exit * Qty
        sold == IF side = "BUY" THEN out ELSE in
        brokerage == PerLegBrokerage(in) + PerLegBrokerage(out)
        both == ((in + out) * Rates.exchange) \div 10000
    IN  brokerage + both + ((brokerage + both) * Rates.gst) \div 100
            + (sold * Rates.stt) \div 10000 + ((in + out - sold) * Rates.stamp) \div 10000

CloseTrade(tr, x, t) ==
    LET gross == (IF tr.side = "BUY" THEN x.price - tr.entry ELSE tr.entry - x.price) * Qty
        charges == Charges(tr.side, tr.entry, x.price)
        slippage == (SlippagePct * (tr.entry + x.price) * Qty) \div 100
    IN  [side |-> tr.side, entryTs |-> tr.entryTs, entry |-> tr.entry,
         exitTs |-> t, exit |-> x.price, reason |-> x.reason, gross |-> gross,
         charges |-> charges, slippage |-> slippage, net |-> gross - charges - slippage]

\* Fractions of naturals: a/b above c/d.
Above(p, q) == p[1] * q[2] > q[1] * p[2]
Larger(p, q) == IF Above(p, q) THEN p ELSE q

\* Mutant: the drawdown is taken relative to the capital.
RecordTradeOfCapital(bk, tr) ==
    LET eq == bk.equity + tr.net
        pk == Max({bk.peak, eq})
    IN  [bk EXCEPT !.open = None, !.trades = Append(@, tr), !.equity = eq,
                   !.peak = pk, !.maxdd = Larger(<<pk - eq, Capital>>, @)]
RecordTrade(bk, tr) ==
    LET eq == bk.equity + tr.net
        pk == Max({bk.peak, eq})
    IN  [bk EXCEPT !.open = None, !.trades = Append(@, tr), !.equity = eq,
                   !.peak = pk, !.maxdd = Larger(<<pk - eq, pk>>, @)]

Close(bk, x, t) == RecordTrade(bk, CloseTrade(bk.open, x, t))

-----------------------------------------------------------------------------
(* One iteration of the loop of RunBacktest.                               *)

AfterExit(bk, b, t) ==
    IF bk.open = None \/ CheckExitConditions(bk.open, b, t).reason = ""
    THEN bk
    ELSE Close(bk, CheckExitConditions(bk.open, b, t), t)

Opened(bk, side, b, t) ==
    [bk EXCEPT !.open = [side |-> side, entryTs |-> t, entry |-> b.open]]

\* Mutant: an opposite signal only closes the open trade.
CloseOnReversal(bk, side, b, t) ==
    CASE bk.open = None -> Opened(bk, side, b, t)
      [] bk.open # None /\ bk.open.side = side -> bk
      [] bk.open # None /\ bk.open.side # side -> Close(bk, Exit("signal_reversal", b.open), t)
AfterSignal(bk, side, b, t) ==
    CASE bk.open = None -> Opened(bk, side, b, t)
      [] bk.open # None /\ bk.open.side = side -> bk
      [] bk.open # None /\ bk.open.side # side ->
             Opened(Close(bk, Exit("signal_reversal", b.open), t), side, b, t)

Now == stamps[Len(bars)]
Due == bars # <<>> /\ sigIdx < Len(queue) /\ queue[sigIdx + 1].exec = Now

WalkCandle ==
    /\ cursor.sig > Len(signals)
    /\ result = <<>> /\ Len(bars) < Len(stamps) /\ ~Due
    /\ \E b \in Bars :
        /\ bars' = Append(bars, b)
        /\ book' = AfterExit(book, b, stamps[Len(bars) + 1])
    /\ UNCHANGED <<stamps, signals, cursor, queue, sigIdx, result>>

ExecuteSignal ==
    /\ Due
    /\ book' = AfterSignal(book, queue[sigIdx + 1].sig.side, Last(bars), Now)
    /\ sigIdx' = sigIdx + 1
    /\ UNCHANGED <<stamps, signals, cursor, queue, bars, result>>

-----------------------------------------------------------------------------
(* The result and the figures derived from it.                             *)

(* A loop over the trades is a function of how many it has passed.         *)

\* The sums a loop goes through, and the greatest value it has met.
Sums(base, vals) ==
    LET at[k \in 0..Len(vals)] == IF k = 0 THEN base ELSE at[k - 1] + vals[k] IN at
Peaks(base, vals) ==
    LET at[k \in 0..Len(vals)] == IF k = 0 THEN base ELSE Max({at[k - 1], vals[k]}) IN at

Total(vals) == Sums(0, vals)[Len(vals)]
Column(trs, f) == [k \in DOMAIN trs |-> trs[k][f]]

Won(tr) == tr.net > 0
Lost(tr) == tr.net < 0
Winning(trs) == [k \in DOMAIN trs |-> Won(trs[k])]
Losing(trs) == [k \in DOMAIN trs |-> Lost(trs[k])]
Count(flags) == Total([k \in DOMAIN flags |-> IF flags[k] THEN 1 ELSE 0])
SumWhere(flags, vals) == Total([k \in DOMAIN vals |-> IF flags[k] THEN vals[k] ELSE 0])

\* Any other trade ends a streak, also one without profit or loss.
Streak(flags) ==
    LET at[k \in 0..Len(flags)] == IF k = 0 \/ ~flags[k] THEN 0 ELSE at[k - 1] + 1 IN at
LongestStreak(flags) == Peaks(0, [k \in DOMAIN flags |-> Streak(flags)[k]])[Len(flags)]

\* Averages and ratios are kept as the sums and counts they are made of; the
\* profit factor is a fraction, <<0, 0>> where the code leaves it nil.
ComputeTradeStats(trs) ==
    LET nets == Column(trs, "net")
        wins == SumWhere(Winning(trs), nets)
        losses == SumWhere(Losing(trs), nets)
        all == {nets[k] : k \in DOMAIN nets} \cup (IF trs = <<>> THEN {0} ELSE {})
    IN  [winSum |-> wins, lossSum |-> losses,
         winCount |-> Count(Winning(trs)), lossCount |-> Count(Losing(trs)),
         best |-> Max(all), worst |-> Min(all),
         profitFactor |-> IF wins > 0 /\ losses < 0 THEN <<wins, -losses>> ELSE <<0, 0>>,
         longestWin |-> LongestStreak(Winning(trs)), longestLoss |-> LongestStreak(Losing(trs))]

\* A point at the start, one per trade, and one at the end of the run.
ChartPoint(ts, eq, pk) == [ts |-> ts, equity |-> eq, down |-> <<pk - eq, pk>>]
BuildChartData(trs, from, to) ==
    LET n == Len(trs)
        eq == Sums(Capital, Column(trs, "net"))
        pk == Peaks(Capital, [k \in DOMAIN trs |-> eq[k]])
        points == [j \in 1..(n + 1) |->
                      ChartPoint(IF j = 1 THEN from ELSE trs[j - 1].exitTs, eq[j - 1], pk[j - 1])]
    IN  IF trs # <<>> /\ trs[n].exitTs = to THEN points
        ELSE Append(points, ChartPoint(to, eq[n], pk[n]))

Finish ==
    /\ result = <<>>
    /\ Len(bars) = Len(stamps) /\ ~Due
    /\ LET t == Last(stamps)
           bk == IF book.open = None THEN book
                 ELSE Close(book, Exit("end_of_data", Last(bars).close), t)
           sum(f) == Total(Column(bk.trades, f))
       IN  /\ book' = bk
           /\ result' =
               <<[net |-> sum("gross") - sum("charges") - sum("slippage"),
                  wins |-> Count(Winning(bk.trades)), losses |-> Count(Losing(bk.trades)),
                  maxdd |-> bk.maxdd, stats |-> ComputeTradeStats(bk.trades),
                  chart |-> BuildChartData(bk.trades, 0, Horizon)]>>
    /\ UNCHANGED <<stamps, signals, cursor, queue, sigIdx, bars>>

-----------------------------------------------------------------------------
Lists(S) == UNION {[1..n -> S] : n \in 0..Horizon}
Ascending(s) == \A i, j \in DOMAIN s : i < j => s[i] < s[j]

\* The run starts once both streams are read; no trade candle means no run.
Init ==
    /\ stamps \in {s \in Lists(Slots) : s # <<>> /\ Ascending(s)}
    /\ signals \in {s \in Lists([ts : Slots, side : Sides]) : Ascending([k \in DOMAIN s |-> s[k].ts])}
    /\ cursor = [sig |-> 1, match |-> 1, exec |-> 1]
    /\ queue = <<>>
    /\ sigIdx = 0
    /\ bars = <<>>
    /\ book = [open |-> None, trades |-> <<>>, equity |-> Capital,
               peak |-> Capital, maxdd |-> <<0, 1>>]
    /\ result = <<>>

Next == ScheduleSignal \/ WalkCandle \/ ExecuteSignal \/ Finish

Spec == Init /\ [][Next]_vars

-----------------------------------------------------------------------------
Walked == {stamps[k] : k \in 1..Len(bars)}
BarAt(t) == bars[CHOOSE k \in 1..Len(bars) : stamps[k] = t]
Trades == ToSet(book.trades)
Positions == Trades \cup ({book.open} \ {None})

TypeOK ==
    /\ \A k \in DOMAIN stamps : stamps[k] \in Slots
    /\ \A k \in DOMAIN signals : signals[k].ts \in Slots /\ signals[k].side \in Sides
    /\ bars \in Seq(Bars) /\ Len(bars) <= Len(stamps)
    /\ \A p \in Positions : p.side \in Sides /\ p.entryTs \in Walked /\ p.entry \in Nat
    /\ \A tr \in Trades :
        tr.reason \in {"target", "stop_loss", "time_exit", "signal_reversal", "end_of_data"}
    /\ book.equity \in Int /\ book.peak \in Nat

(* No look-ahead: every position was opened at the open of the first trade  *)
(* candle that starts after the bar of a signal of its side was complete,   *)
(* and that bar has a trade candle of its own (the inner join the contract  *)
(* of RunBacktest in internal/models/backtest.go describes; scheduleSignals *)
(* computes it with two indices that never move back).                      *)
NoLookAhead ==
    \A p \in Positions : \E k \in DOMAIN signals :
        LET s == signals[k] IN
        /\ s.side = p.side
        /\ s.ts \in ToSet(stamps)
        /\ p.entryTs >= s.ts + Interval
        /\ \A t \in ToSet(stamps) : t >= s.ts + Interval => p.entryTs <= t
        /\ p.entry = BarAt(p.entryTs).open

(* One position at a time, on the side of the signals: closed trades follow *)
(* one another, the open one comes last, and after a candle that executed a *)
(* signal the position held is of the side of the last one executed (the    *)
(* signal loop of RunBacktest, internal/engine/backtest.go).                *)
PositionFollowsSignals ==
    /\ \A k \in 1..Len(book.trades) - 1 : book.trades[k].exitTs <= book.trades[k + 1].entryTs
    /\ book.open # None => \A tr \in Trades : tr.exitTs <= book.open.entryTs
    /\ \A k \in DOMAIN signals :
        LET later == {t \in ToSet(stamps) : t >= signals[k].ts + Interval}
        IN  (/\ signals[k].ts \in ToSet(stamps) /\ later # {}
             /\ bars # <<>> /\ Min(later) = Now /\ ~Due
             /\ \A j \in DOMAIN signals : j > k => signals[j].ts \notin ToSet(stamps)
                     \/ Min(later) < signals[j].ts + Interval
             /\ result = <<>>)
            => book.open # None /\ book.open.side = signals[k].side

(* A rule that fires is never slept through: a position survives no candle  *)
(* after its entry candle on which its target, stop or time rule holds, and *)
(* a trade that ended otherwise ended without any of them holding           *)
(* (checkExitConditions runs before the signals of the candle).             *)
Fires(p, t) ==
    LET b == BarAt(t)
        long == p.side = "BUY"
    IN  \/ TargetPct # 0 /\ IF long THEN b.high >= Up(p.entry, TargetPct)
                                    ELSE b.low <= Down(p.entry, TargetPct)
        \/ StopLossPct # 0 /\ IF long THEN b.low <= Down(p.entry, StopLossPct)
                                      ELSE b.high >= Up(p.entry, StopLossPct)
        \/ TimeExit # 0 /\ t >= p.entryTs + TimeExit
ExitsAtFirstChance ==
    /\ \A t \in Walked : book.open # None /\ t > book.open.entryTs => ~Fires(book.open, t)
    /\ \A tr \in Trades, t \in Walked :
        t > tr.entryTs =>
            /\ t < tr.exitTs => ~Fires(tr, t)
            /\ t = tr.exitTs =>
                (Fires(tr, t) <=> tr.reason \in {"target", "stop_loss", "time_exit"})

(* The two drawdowns shown for a run agree: the MaxDrawdown kept while the  *)
(* trades are recorded is the deepest point of the chart series computed    *)
(* from the same trades (recordTrade of backtest.go, BuildChartData of      *)
(* stats.go, whose comments promise one semantics), and the chart ends on   *)
(* the final equity, which is the capital plus the net result.              *)
DrawdownsAgree ==
    result # <<>> =>
        LET chart == result[1].chart
        IN  /\ \A k \in DOMAIN chart : ~Above(chart[k].down, result[1].maxdd)
            /\ \E k \in DOMAIN chart : ~Above(result[1].maxdd, chart[k].down)
            /\ Last(chart).equity = book.equity
            /\ book.equity = Capital + result[1].net

(* The statistics of a run, computed by other loops than its result, tell   *)
(* the same story: the streaks reported are the longest runs of consecutive *)
(* winning and losing trades, the sums behind the averages add up to the    *)
(* net result, the counts agree, and the profit factor exceeds one exactly  *)
(* when a run with wins and losses made money (ComputeTradeStats and        *)
(* computeStreaks against the totals of RunBacktest).                       *)
LongestRun(Test(_)) ==
    LET trs == book.trades
        runs == {r \in (DOMAIN trs) \X (DOMAIN trs) :
                    r[1] <= r[2] /\ \A k \in r[1]..r[2] : Test(trs[k])}
    IN  Max({r[2] - r[1] + 1 : r \in runs} \cup {0})
StatisticsAgree ==
    result # <<>> =>
        LET s == result[1].stats
        IN  /\ s.longestWin = LongestRun(Won) /\ s.longestLoss = LongestRun(Lost)
            /\ s.winSum + s.lossSum = result[1].net
            /\ s.winCount = result[1].wins /\ s.lossCount = result[1].losses
            /\ s.profitFactor # <<0, 0>> =>
                (s.profitFactor[1] > s.profitFactor[2] <=> book.equity > Capital)

(* What a run reports is right, whichever loop computed it: drawdowns,      *)
(* chart, streaks, sums and counts all follow from its trades.              *)
FiguresAgreeWithTrades == DrawdownsAgree /\ StatisticsAgree

(* What the contract of RunBacktest says of exits: open positions evaluate  *)
(* them on every trade-side bar.  The code does not on the bar of the       *)
(* entry, although the position is open from its open on: the exit check    *)
(* of a candle comes before the signals it executes.                        *)
ExitsOnEveryBar ==
    (bars # <<>> /\ result = <<>> /\ book.open # None)
        => ~Fires(book.open, Now)
=============================================================================
