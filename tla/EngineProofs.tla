---------------------------- MODULE EngineProofs ----------------------------
(***************************************************************************)
(* The walk of the engine for any candles, any signals and any rules.  The *)
(* invariant says where the two indices of scheduleSignals have come, that *)
(* the schedule holds every signal with a candle to execute it on, at the  *)
(* first such candle and in order, that the walk has executed exactly what *)
(* was due so far, and what follows for the position and the trades.       *)
(* The second part shows what each loop over the trades computes, and that *)
(* the account kept while they are recorded agrees with it.                *)
(***************************************************************************)
EXTENDS Engine, SequenceTheorems, WellFoundedInduction, TLAPS

Signal == [ts : Slots, side : Sides]
Rules == {"target", "stop_loss", "time_exit"}
Reasons == Rules \cup {"signal_reversal", "end_of_data"}
Position == [side : Sides, entryTs : Slots, entry : Nat]
Trade == [side : Sides, entryTs : Slots, entry : Nat, exitTs : Slots, exit : Int,
          reason : Reasons, gross : Int, charges : Int, slippage : Int, net : Int]
Book == [open : Position \cup {None}, trades : Seq(Trade), equity : Int, peak : Nat,
         maxdd : Int \X Int]

\* The candles and the signals are in the order of time.
StreamsOK ==
  /\ stamps \in Seq(Slots) /\ stamps # <<>>
  /\ \A i, j \in 1..Len(stamps) : i < j => stamps[i] < stamps[j]
  /\ signals \in Seq(Signal)
  /\ \A i, j \in 1..Len(signals) : i < j => signals[i].ts < signals[j].ts

\* sig has a candle of its own, and is executed at t.
Matched(sig) == \E i \in 1..Len(stamps) : stamps[i] = sig.ts
ExecutedAt(sig, t) ==
  /\ \E i \in 1..Len(stamps) : stamps[i] = t
  /\ t >= sig.ts + Interval
  /\ \A i \in 1..Len(stamps) : stamps[i] >= sig.ts + Interval => t <= stamps[i]

\* What the indices have passed is too early for every signal to come.
CursorOK ==
  /\ cursor \in [sig : 1..(Len(signals) + 1), match : 1..(Len(stamps) + 1),
                 exec : 1..(Len(stamps) + 1)]
  /\ \A k \in cursor.sig..Len(signals) :
       /\ \A i \in 1..(cursor.match - 1) : stamps[i] < signals[k].ts
       /\ \A i \in 1..(cursor.exec - 1) : stamps[i] < signals[k].ts + Interval

\* Executable signals only, in order, and every one the indices have passed.
Executable(sig) ==
  Matched(sig) /\ \E i \in 1..Len(stamps) : stamps[i] >= sig.ts + Interval
Schedules(q, passed) ==
  /\ q \in Seq([sig : Signal, exec : Slots])
  /\ \A j \in 1..Len(q) :
       /\ \E k \in 1..(passed - 1) : q[j].sig = signals[k]
       /\ Matched(q[j].sig) /\ ExecutedAt(q[j].sig, q[j].exec)
  /\ \A i, j \in 1..Len(q) : i < j => q[i].sig.ts < q[j].sig.ts
  /\ \A k \in 1..(passed - 1) :
       Executable(signals[k]) => \E j \in 1..Len(q) : q[j].sig = signals[k]
QueueOK == Schedules(queue, cursor.sig)

\* The walk does not leave a candle before its signals are executed.
WalkOK ==
  /\ bars \in Seq(Bars) /\ Len(bars) <= Len(stamps)
  /\ bars # <<>> => cursor.sig = Len(signals) + 1
  /\ sigIdx \in 0..Len(queue)
  /\ bars = <<>> => sigIdx = 0
  /\ \A j \in 1..Len(queue) : j <= sigIdx => queue[j].exec <= Now
  /\ \A j \in 1..Len(queue) : bars # <<>> /\ j > sigIdx => queue[j].exec >= Now

\* The rule of p fires on the candle b that starts at t.
FiresOn(p, b, t) ==
  \/ TargetPct # 0 /\ IF p.side = "BUY" THEN b.high >= Up(p.entry, TargetPct)
                                        ELSE b.low <= Down(p.entry, TargetPct)
  \/ StopLossPct # 0 /\ IF p.side = "BUY" THEN b.low <= Down(p.entry, StopLossPct)
                                          ELSE b.high >= Up(p.entry, StopLossPct)
  \/ TimeExit # 0 /\ t >= p.entryTs + TimeExit

\* Positions and trades, after a walk over the candles bs: each was entered on
\* a signal at the open of one of them, and ended by the first rule that fires.
Entered(bs, p) ==
  /\ \E c \in 1..Len(bs) : p.entryTs = stamps[c] /\ p.entry = bs[c].open
  /\ \E k \in 1..Len(signals) :
       signals[k].side = p.side /\ Matched(signals[k]) /\ ExecutedAt(signals[k], p.entryTs)

Ended(bs, tr) ==
  /\ \E c \in 1..Len(bs) : tr.exitTs = stamps[c]
  /\ \A c \in 1..Len(bs) :
       stamps[c] > tr.entryTs =>
         /\ stamps[c] < tr.exitTs => ~FiresOn(tr, bs[c], stamps[c])
         /\ stamps[c] = tr.exitTs => (FiresOn(tr, bs[c], stamps[c]) <=> tr.reason \in Rules)

\* n is how many candles the open position was evaluated on.
Fits(bs, bk, n) ==
  /\ bk \in Book
  /\ bk.open # None =>
       /\ Entered(bs, bk.open)
       /\ \A i \in 1..Len(bk.trades) : bk.trades[i].exitTs <= bk.open.entryTs
       /\ \A c \in 1..n : stamps[c] > bk.open.entryTs => ~FiresOn(bk.open, bs[c], stamps[c])
  /\ \A i \in 1..Len(bk.trades) : Entered(bs, bk.trades[i]) /\ Ended(bs, bk.trades[i])
  /\ \A i, j \in 1..Len(bk.trades) : i < j => bk.trades[i].exitTs <= bk.trades[j].entryTs

BookOK ==
  /\ Fits(bars, book, Len(bars))
  /\ result = <<>> /\ bars # <<>> /\ sigIdx > 0 /\ queue[sigIdx].exec = Now =>
       book.open # None /\ book.open.side = queue[sigIdx].sig.side

EngineInv ==
  /\ StreamsOK
  /\ CursorOK
  /\ QueueOK
  /\ WalkOK
  /\ BookOK

-----------------------------------------------------------------------------
(* Arithmetic and typing.                                                  *)

LessThan == {p \in Nat \X Nat : p[1] < p[2]}

\* A set of natural numbers that is not empty has a least element.
LEMMA LeastNumber ==
  ASSUME NEW T \in SUBSET Nat, T # {}
  PROVE  \E m \in T : \A n \in T : m <= n
<1>1. IsWellFoundedOn(LessThan, Nat)
  <2>1. OpToRel(<, Nat) = LessThan
    BY DEF OpToRel, LessThan
  <2> QED
    BY <2>1, NatLessThanWellFounded
<1>2. PICK m \in T : \A n \in T : ~(<<n, m>> \in LessThan)
  BY <1>1, WFMin
<1>3. ASSUME NEW n \in T PROVE m <= n
  <2>1. ~(n < m)
    BY <1>2 DEF LessThan
  <2> QED
    BY <2>1
<1> QED
  BY <1>3

LEMMA MinOfTwo ==
  ASSUME NEW a \in Int, NEW b \in Int
  PROVE  Min({a, b}) \in Int /\ Min({a, b}) \in {a, b} /\ Min({a, b}) <= a /\ Min({a, b}) <= b
<1>1. \E m \in {a, b} : \A y \in {a, b} : m =< y
  OBVIOUS
<1> QED
  BY <1>1 DEF Min

LEMMA MaxOfTwo ==
  ASSUME NEW a \in Int, NEW b \in Int
  PROVE  Max({a, b}) \in {a, b} /\ Max({a, b}) >= a /\ Max({a, b}) >= b
<1>1. \E m \in {a, b} : \A y \in {a, b} : m >= y
  OBVIOUS
<1> QED
  BY <1>1 DEF Max

\* Charges are a number, whatever the prices.
LEMMA ChargesTyped ==
  ASSUME NEW side \in Sides, NEW entry \in Int, NEW exit \in Int
  PROVE  Charges(side, entry, exit) \in Int
<1>1. \A t \in Int : PerLegBrokerage(t) \in Int
  <2>1. ASSUME NEW t \in Int PROVE PerLegBrokerage(t) \in Int
    <3> DEFINE share == (t * Rates.brokerage) \div 10000
    <3>1. share \in Int /\ Rates.cap \in Int
      BY EngineAssumption
    <3>2. PerLegBrokerage(t) = Min({share, Rates.cap})
      BY DEF PerLegBrokerage
    <3> HIDE DEF share
    <3> QED
      BY <3>1, <3>2, MinOfTwo
  <2> QED
    BY <2>1
<1> DEFINE in == entry * Qty
           out == exit * Qty
           sold == IF side = "BUY" THEN out ELSE in
           brokerage == PerLegBrokerage(in) + PerLegBrokerage(out)
           both == ((in + out) * Rates.exchange) \div 10000
<1>2. in \in Int /\ out \in Int /\ sold \in Int
  BY EngineAssumption
<1>3. brokerage \in Int
  BY <1>1, <1>2
<1>4. both \in Int
  BY <1>2, EngineAssumption
<1>5. ((brokerage + both) * Rates.gst) \div 100 \in Int
  <2> HIDE DEF brokerage, both
  <2> QED
    BY <1>3, <1>4, EngineAssumption
<1>6. (sold * Rates.stt) \div 10000 \in Int /\ ((in + out - sold) * Rates.stamp) \div 10000 \in Int
  <2> HIDE DEF in, out, sold
  <2> QED
    BY <1>2, EngineAssumption
<1>7. Charges(side, entry, exit) =
        brokerage + both + ((brokerage + both) * Rates.gst) \div 100
          + (sold * Rates.stt) \div 10000 + ((in + out - sold) * Rates.stamp) \div 10000
  BY DEF Charges
<1> HIDE DEF in, out, sold, brokerage, both
<1> QED
  BY <1>2, <1>3, <1>4, <1>5, <1>6, <1>7

\* The outcome of the exit check is an exit exactly when a rule fires.
LEMMA ExitDecision ==
  ASSUME NEW p \in Position, NEW b \in Bars, NEW t \in Slots,
         NEW x, x = CheckExitConditions(p, b, t)
  PROVE  /\ x.reason = "" <=> ~FiresOn(p, b, t)
         /\ x.reason # "" => x \in [reason : Rules, price : Int]
<1>1. /\ p.side \in Sides /\ p.entryTs \in Int /\ p.entry \in Int
      /\ t \in Int /\ b.close \in Int /\ TimeExit \in Int
  BY EngineAssumption DEF Position, Slots
<1>2. TargetPrice(p) \in Int /\ StopPrice(p) \in Int
  BY <1>1, EngineAssumption DEF TargetPrice, StopPrice, Up, Down
<1>3. HitsTime(p, t) <=> TimeExit # 0 /\ t >= p.entryTs + TimeExit
  BY <1>1 DEF HitsTime
<1>4. FiresOn(p, b, t) <=> HitsTarget(p, b) \/ HitsStop(p, b) \/ HitsTime(p, t)
  BY <1>3 DEF FiresOn, HitsTarget, HitsStop
<1>5. CASE HitsTarget(p, b)
  <2>1. x = Exit("target", TargetPrice(p))
    BY <1>5 DEF CheckExitConditions
  <2> QED
    BY <2>1, <1>2, <1>4, <1>5 DEF Exit, Rules
<1>6. CASE ~HitsTarget(p, b) /\ HitsStop(p, b)
  <2>1. x = Exit("stop_loss", StopPrice(p))
    BY <1>6 DEF CheckExitConditions
  <2> QED
    BY <2>1, <1>2, <1>4, <1>6 DEF Exit, Rules
<1>7. CASE ~HitsTarget(p, b) /\ ~HitsStop(p, b) /\ HitsTime(p, t)
  <2>1. x = Exit("time_exit", b.close)
    BY <1>7 DEF CheckExitConditions
  <2> QED
    BY <2>1, <1>1, <1>4, <1>7 DEF Exit, Rules
<1>8. CASE ~HitsTarget(p, b) /\ ~HitsStop(p, b) /\ ~HitsTime(p, t)
  <2>1. ~FiresOn(p, b, t)
    BY <1>4, <1>8
  <2> QED
    BY <1>8, <2>1 DEF CheckExitConditions, Exit
<1> QED
  BY <1>5, <1>6, <1>7, <1>8

\* The trade a position becomes.
LEMMA ClosedTrade ==
  ASSUME NEW p \in Position, NEW x \in [reason : Reasons, price : Int], NEW t \in Slots,
         NEW tr, tr = CloseTrade(p, x, t)
  PROVE  /\ tr \in Trade
         /\ tr.side = p.side /\ tr.entryTs = p.entryTs /\ tr.entry = p.entry
         /\ tr.exitTs = t /\ tr.reason = x.reason
<1> DEFINE gross == (IF p.side = "BUY" THEN x.price - p.entry ELSE p.entry - x.price) * Qty
           charges == Charges(p.side, p.entry, x.price)
           slippage == (SlippagePct * (p.entry + x.price) * Qty) \div 100
<1>1. /\ p.side \in Sides /\ p.entryTs \in Slots /\ p.entry \in Nat
      /\ x.price \in Int /\ x.reason \in Reasons
  BY DEF Position
<1>2. gross \in Int
  BY <1>1, EngineAssumption
<1>3. charges \in Int
  BY <1>1, ChargesTyped
<1>4. slippage \in Int
  BY <1>1, EngineAssumption
<1>5. tr = [side |-> p.side, entryTs |-> p.entryTs, entry |-> p.entry,
            exitTs |-> t, exit |-> x.price, reason |-> x.reason, gross |-> gross,
            charges |-> charges, slippage |-> slippage, net |-> gross - charges - slippage]
  BY DEF CloseTrade
<1> HIDE DEF gross, charges, slippage
<1>6. gross - charges - slippage \in Int
  BY <1>2, <1>3, <1>4
<1> QED
  BY <1>1, <1>2, <1>3, <1>4, <1>5, <1>6 DEF Trade

\* What recording a trade does to the book.
LEMMA RecordedTrade ==
  ASSUME NEW bk \in Book, NEW tr \in Trade, NEW new, new = RecordTrade(bk, tr)
  PROVE  /\ new \in Book /\ new.open = None
         /\ new.trades = Append(bk.trades, tr)
<1> DEFINE eq == bk.equity + tr.net
           pk == Max({bk.peak, eq})
           dd == Larger(<<pk - eq, pk>>, bk.maxdd)
<1>1. bk.trades \in Seq(Trade) /\ bk.peak \in Nat /\ bk.maxdd \in Int \X Int
  BY DEF Book
<1>2. eq \in Int
  BY DEF Book, Trade
<1>3. pk \in Nat
  <2> DEFINE peak == bk.peak
  <2>1. peak \in Nat /\ peak \in Int /\ pk = Max({peak, eq})
    BY <1>1
  <2> HIDE DEF eq, peak, pk
  <2>2. pk \in {peak, eq} /\ pk >= peak
    BY <1>2, <2>1, MaxOfTwo
  <2> QED
    BY <1>2, <2>1, <2>2
<1>4. dd \in Int \X Int
  <2>1. pk - eq \in Int
    <3> HIDE DEF eq, pk
    <3> QED
      BY <1>2, <1>3
  <2> HIDE DEF eq, pk
  <2> QED
    BY <1>1, <1>3, <2>1 DEF Larger
<1>5. Append(bk.trades, tr) \in Seq(Trade)
  BY <1>1, AppendProperties
<1>6. new = [bk EXCEPT !.open = None, !.trades = Append(@, tr), !.equity = eq,
                       !.peak = pk, !.maxdd = dd]
  BY DEF RecordTrade
<1> HIDE DEF eq, pk, dd
<1> QED
  BY <1>2, <1>3, <1>4, <1>5, <1>6 DEF Book

\* Candles and signals, by number.
LEMMA StreamFacts ==
  ASSUME StreamsOK
  PROVE  /\ Len(stamps) \in Nat \ {0} /\ Len(signals) \in Nat
         /\ \A i \in 1..Len(stamps) : stamps[i] \in Slots /\ stamps[i] \in Int
         /\ \A i, j \in 1..Len(stamps) : i < j => stamps[i] < stamps[j]
         /\ \A i, j \in 1..Len(stamps) : i <= j => stamps[i] <= stamps[j]
         /\ \A k \in 1..Len(signals) :
              /\ signals[k] \in Signal /\ signals[k].side \in Sides
              /\ signals[k].ts \in Slots /\ signals[k].ts \in Int
<1>1. Len(stamps) \in Nat \ {0} /\ Len(signals) \in Nat
  BY DEF StreamsOK
<1>2. ASSUME NEW i \in 1..Len(stamps) PROVE stamps[i] \in Slots /\ stamps[i] \in Int
  <2>1. stamps[i] \in Slots
    BY DEF StreamsOK
  <2> QED
    BY <2>1 DEF Slots
<1>3. \A i, j \in 1..Len(stamps) : i < j => stamps[i] < stamps[j]
  BY DEF StreamsOK
<1>4. ASSUME NEW i \in 1..Len(stamps), NEW j \in 1..Len(stamps), i <= j
      PROVE  stamps[i] <= stamps[j]
  <2>1. i = j \/ i < j
    BY <1>4
  <2> QED
    BY <1>2, <1>3, <2>1
<1>5. ASSUME NEW k \in 1..Len(signals)
      PROVE  /\ signals[k] \in Signal /\ signals[k].side \in Sides
             /\ signals[k].ts \in Slots /\ signals[k].ts \in Int
  <2>1. signals[k] \in Signal
    BY DEF StreamsOK
  <2>2. signals[k].ts \in Slots
    BY <2>1 DEF Signal
  <2> QED
    BY <2>1, <2>2 DEF Signal, Slots
<1> QED
  BY <1>1, <1>2, <1>3, <1>4, <1>5

-----------------------------------------------------------------------------
(* The book after one more candle, a closed trade, an opened position.     *)

\* Reaching a candle takes nothing back of what was entered and ended before.
LEMMA Extended ==
  ASSUME StreamsOK, NEW bs \in Seq(Bars), Len(bs) < Len(stamps), NEW b \in Bars,
         NEW bk, Fits(bs, bk, Len(bs))
  PROVE  Fits(Append(bs, b), bk, Len(bs))
<1> DEFINE n == Len(bs)
           new == Append(bs, b)
<1>1. /\ new \in Seq(Bars) /\ Len(new) = n + 1 /\ n \in Nat
      /\ \A c \in 1..n : new[c] = bs[c]
  BY AppendProperties
<1>2. \A c \in 1..n : c \in 1..Len(new) /\ n + 1 \in 1..Len(stamps)
  BY <1>1 DEF StreamsOK
<1> HIDE DEF new
<1>3. ASSUME NEW p, Entered(bs, p) PROVE Entered(new, p)
  BY <1>1, <1>2, <1>3 DEF Entered
<1>4. ASSUME NEW tr, Ended(bs, tr) PROVE Ended(new, tr)
  <2>1. PICK e \in 1..n : tr.exitTs = stamps[e]
    BY <1>4 DEF Ended
  <2>2. e \in 1..Len(new)
    BY <1>2
  <2>3. stamps[n + 1] > stamps[e] /\ stamps[e] \in Int /\ stamps[n + 1] \in Int
    BY <1>2, <1>1, StreamFacts
  <2>4. ASSUME NEW c \in 1..Len(new), stamps[c] > tr.entryTs
        PROVE  /\ stamps[c] < tr.exitTs => ~FiresOn(tr, new[c], stamps[c])
               /\ stamps[c] = tr.exitTs =>
                    (FiresOn(tr, new[c], stamps[c]) <=> tr.reason \in Rules)
    <3>1. CASE c \in 1..n
      BY <1>1, <1>4, <2>4, <3>1 DEF Ended
    <3>2. CASE c = n + 1
      BY <2>1, <2>3, <3>2
    <3> QED
      BY <1>1, <3>1, <3>2
  <2> QED
    BY <2>1, <2>2, <2>4 DEF Ended
<1> QED
  BY <1>1, <1>3, <1>4 DEF Fits, new

\* A position closed on the last candle; by a rule if and only if one fires.
LEMMA Closed ==
  ASSUME StreamsOK, NEW bs \in Seq(Bars), bs # <<>>, Len(bs) <= Len(stamps),
         NEW bk, NEW n \in Nat, n >= Len(bs) - 1, Fits(bs, bk, n), bk.open # None,
         NEW x \in [reason : Reasons, price : Int],
         stamps[Len(bs)] > bk.open.entryTs =>
           (FiresOn(bk.open, bs[Len(bs)], stamps[Len(bs)]) <=> x.reason \in Rules)
  PROVE  /\ Fits(bs, Close(bk, x, stamps[Len(bs)]), Len(bs))
         /\ Close(bk, x, stamps[Len(bs)]).open = None
<1> DEFINE l == Len(bs)
           t == stamps[l]
           tr == CloseTrade(bk.open, x, t)
           new == Close(bk, x, t)
<1>1. l \in 1..Len(stamps) /\ l \in 1..Len(bs) /\ t \in Slots
  BY DEF StreamsOK
<1>2. bk \in Book /\ bk.open \in Position
  BY DEF Fits, Book
<1>3. /\ tr \in Trade
      /\ tr.side = bk.open.side /\ tr.entryTs = bk.open.entryTs /\ tr.entry = bk.open.entry
      /\ tr.exitTs = t /\ tr.reason = x.reason
  BY <1>1, <1>2, ClosedTrade
<1>4. new = RecordTrade(bk, tr)
  BY DEF Close
<1> HIDE DEF tr, new
<1>5. new \in Book /\ new.open = None /\ new.trades = Append(bk.trades, tr)
  BY <1>2, <1>3, <1>4, RecordedTrade
<1>6. /\ bk.trades \in Seq(Trade) /\ Len(new.trades) = Len(bk.trades) + 1
      /\ \A i \in 1..Len(bk.trades) : new.trades[i] = bk.trades[i]
      /\ new.trades[Len(bk.trades) + 1] = tr
  <2>1. bk.trades \in Seq(Trade)
    BY <1>2 DEF Book
  <2> QED
    BY <1>3, <1>5, <2>1, AppendProperties
<1>7. Entered(bs, tr)
  <2>1. Entered(bs, bk.open)
    BY DEF Fits
  <2> QED
    BY <1>3, <2>1 DEF Entered
<1>8. Ended(bs, tr)
  <2>1. ASSUME NEW c \in 1..l, stamps[c] > tr.entryTs
        PROVE  /\ stamps[c] < tr.exitTs => ~FiresOn(tr, bs[c], stamps[c])
               /\ stamps[c] = tr.exitTs =>
                    (FiresOn(tr, bs[c], stamps[c]) <=> tr.reason \in Rules)
    <3>1. FiresOn(tr, bs[c], stamps[c]) <=> FiresOn(bk.open, bs[c], stamps[c])
      BY <1>3 DEF FiresOn
    <3>2. CASE c = l
      <4>1. stamps[c] \in Int
        BY <1>1, <3>2 DEF Slots
      <4> QED
        BY <1>3, <2>1, <3>1, <3>2, <4>1
    <3>3. CASE c # l
      <4>1. c \in 1..n /\ c < l
        BY <3>3, <1>1
      <4>2. stamps[c] < t
        BY <1>1, <4>1, StreamFacts
      <4>3. stamps[c] \in Int /\ t \in Int
        BY <1>1, <4>1, StreamFacts
      <4>4. ~FiresOn(bk.open, bs[c], stamps[c])
        BY <1>3, <2>1, <4>1 DEF Fits
      <4> QED
        BY <1>3, <3>1, <4>2, <4>3, <4>4
    <3> QED
      BY <3>2, <3>3
  <2> QED
    BY <1>1, <1>3, <2>1 DEF Ended
<1>9. ASSUME NEW i \in 1..Len(new.trades)
      PROVE  Entered(bs, new.trades[i]) /\ Ended(bs, new.trades[i])
  <2>1. CASE i \in 1..Len(bk.trades)
    BY <1>6, <2>1 DEF Fits
  <2>2. CASE i = Len(bk.trades) + 1
    BY <1>6, <1>7, <1>8, <2>2
  <2> QED
    BY <1>6, <2>1, <2>2
<1>10. ASSUME NEW i \in 1..Len(new.trades), NEW j \in 1..Len(new.trades), i < j
       PROVE  new.trades[i].exitTs <= new.trades[j].entryTs
  <2>1. i \in 1..Len(bk.trades)
    BY <1>6, <1>10
  <2>2. CASE j \in 1..Len(bk.trades)
    BY <1>6, <1>10, <2>1, <2>2 DEF Fits
  <2>3. CASE j = Len(bk.trades) + 1
    BY <1>3, <1>6, <2>1, <2>3 DEF Fits
  <2> QED
    BY <1>6, <2>2, <2>3
<1>11. Fits(bs, new, l)
  BY <1>5, <1>9, <1>10 DEF Fits
<1> QED
  BY <1>5, <1>11 DEF new

\* A position opened on the last candle, on a signal that is due there.
LEMMA OpenedOn ==
  ASSUME StreamsOK, NEW bs \in Seq(Bars), bs # <<>>, Len(bs) <= Len(stamps),
         NEW bk, Fits(bs, bk, Len(bs)), bk.open = None,
         NEW k \in 1..Len(signals), Matched(signals[k]),
         ExecutedAt(signals[k], stamps[Len(bs)])
  PROVE  LET new == Opened(bk, signals[k].side, bs[Len(bs)], stamps[Len(bs)])
         IN  /\ Fits(bs, new, Len(bs))
             /\ new.open # None /\ new.open.side = signals[k].side
<1> DEFINE l == Len(bs)
           side == signals[k].side
           pos == [side |-> side, entryTs |-> stamps[l], entry |-> bs[l].open]
           new == Opened(bk, side, bs[l], stamps[l])
<1>1. l \in 1..Len(stamps) /\ l \in 1..Len(bs) /\ stamps[l] \in Slots
  BY DEF StreamsOK
<1>2. side \in Sides
  BY StreamFacts
<1>3. pos \in Position
  <2>1. bs[l] \in Bars
    BY <1>1
  <2>2. bs[l].open \in Nat
    BY <2>1, EngineAssumption
  <2> QED
    BY <1>1, <1>2, <2>2 DEF Position
<1>4. pos # None
  BY <1>2 DEF Sides, None
<1>5. new = [bk EXCEPT !.open = pos]
  BY DEF Opened
<1>6. pos.side = side /\ pos.entryTs = stamps[l] /\ pos.entry = bs[l].open
  OBVIOUS
<1>7. Entered(bs, pos)
  <2> HIDE DEF pos
  <2> QED
    BY <1>1, <1>6 DEF Entered
<1> HIDE DEF pos, new
<1>8. new \in Book /\ new.open = pos /\ new.trades = bk.trades
  BY <1>3, <1>5 DEF Fits, Book
<1>9. ASSUME NEW i \in 1..Len(bk.trades) PROVE bk.trades[i].exitTs <= pos.entryTs
  <2>1. PICK c \in 1..Len(bs) : bk.trades[i].exitTs = stamps[c]
    BY <1>9 DEF Fits, Ended
  <2>2. c \in 1..Len(stamps) /\ c <= l
    BY <1>1
  <2> QED
    BY <1>1, <1>6, <2>1, <2>2, StreamFacts
<1>10. ASSUME NEW c \in 1..l PROVE ~(stamps[c] > pos.entryTs)
  <2>1. c \in 1..Len(stamps) /\ c <= l
    BY <1>1
  <2>2. stamps[c] \in Int /\ stamps[l] \in Int /\ stamps[c] <= stamps[l]
    BY <1>1, <2>1, StreamFacts
  <2> QED
    BY <1>6, <2>2
<1>11. Fits(bs, new, l)
  BY <1>7, <1>8, <1>9, <1>10 DEF Fits
<1> QED
  BY <1>4, <1>6, <1>8, <1>11 DEF new

\* A candle reached: its exit check, then the book it leaves.
LEMMA CheckedExit ==
  ASSUME NEW bk \in Book, NEW b \in Bars, NEW t \in Slots,
         NEW x, x = CheckExitConditions(bk.open, b, t)
  PROVE  /\ bk.open = None => AfterExit(bk, b, t) = bk
         /\ bk.open # None /\ ~FiresOn(bk.open, b, t) => AfterExit(bk, b, t) = bk
         /\ bk.open # None /\ FiresOn(bk.open, b, t) =>
              AfterExit(bk, b, t) = Close(bk, x, t) /\ x \in [reason : Rules, price : Int]
<1>1. bk.open # None => bk.open \in Position
  BY DEF Book
<1>2. CASE bk.open = None
  BY <1>2 DEF AfterExit
<1>3. CASE bk.open # None
  BY <1>1, <1>3, ExitDecision DEF AfterExit
<1> QED
  BY <1>2, <1>3

LEMMA WalkedBook ==
  ASSUME StreamsOK, NEW bs \in Seq(Bars), Len(bs) < Len(stamps), NEW b \in Bars,
         NEW bk, Fits(bs, bk, Len(bs))
  PROVE  Fits(Append(bs, b), AfterExit(bk, b, stamps[Len(bs) + 1]), Len(Append(bs, b)))
<1> DEFINE n == Len(bs)
           t == stamps[n + 1]
           new == Append(bs, b)
           x == CheckExitConditions(bk.open, b, t)
<1>1. /\ new \in Seq(Bars) /\ Len(new) = n + 1 /\ new[n + 1] = b
      /\ n \in Nat /\ new # <<>> /\ Len(new) <= Len(stamps)
  BY AppendProperties, StreamFacts
<1>2. t \in Slots
  BY <1>1, StreamFacts
<1>3. Fits(new, bk, n)
  BY Extended
<1>4. bk \in Book
  BY DEF Fits
<1> HIDE DEF new
<1>5. /\ bk.open = None => AfterExit(bk, b, t) = bk
      /\ bk.open # None /\ ~FiresOn(bk.open, b, t) => AfterExit(bk, b, t) = bk
      /\ bk.open # None /\ FiresOn(bk.open, b, t) =>
           AfterExit(bk, b, t) = Close(bk, x, t) /\ x \in [reason : Rules, price : Int]
  BY <1>2, <1>4, CheckedExit
<1> HIDE DEF x
<1>6. CASE bk.open = None
  BY <1>3, <1>5, <1>6, <1>1 DEF Fits, new
<1>7. CASE bk.open # None /\ ~FiresOn(bk.open, b, t)
  <2>1. \A c \in 1..(n + 1) : c \in 1..n \/ c = n + 1
    BY <1>1
  <2>2. Fits(new, bk, n + 1)
    BY <1>1, <1>3, <1>7, <2>1 DEF Fits
  <2> QED
    BY <1>1, <1>5, <1>7, <2>2 DEF new
<1>8. CASE bk.open # None /\ FiresOn(bk.open, b, t)
  <2>1. x \in [reason : Reasons, price : Int] /\ x.reason \in Rules
    BY <1>5, <1>8 DEF Reasons
  <2>2. n >= Len(new) - 1 /\ stamps[Len(new)] = t /\ new[Len(new)] = b
    BY <1>1
  <2>3. Fits(new, Close(bk, x, t), Len(new))
    BY <1>1, <1>3, <1>8, <2>1, <2>2, Closed
  <2> QED
    BY <1>5, <1>8, <2>3 DEF new
<1> QED
  BY <1>6, <1>7, <1>8

\* A trade closed by something else than a rule, on a candle already checked.
LEMMA ClosedUnruled ==
  ASSUME StreamsOK, NEW bs \in Seq(Bars), bs # <<>>, Len(bs) <= Len(stamps),
         NEW bk, Fits(bs, bk, Len(bs)), bk.open # None,
         NEW why \in Reasons \ Rules, NEW price \in Int
  PROVE  /\ Fits(bs, Close(bk, Exit(why, price), stamps[Len(bs)]), Len(bs))
         /\ Close(bk, Exit(why, price), stamps[Len(bs)]).open = None
<1> DEFINE x == Exit(why, price)
           l == Len(bs)
<1>1. x \in [reason : Reasons, price : Int] /\ x.reason \notin Rules
  BY DEF Exit
<1>2. l \in Nat /\ l \in 1..l /\ l >= l - 1
  OBVIOUS
<1>3. stamps[l] > bk.open.entryTs => ~FiresOn(bk.open, bs[l], stamps[l])
  BY <1>2 DEF Fits
<1> HIDE DEF x
<1>4. /\ Fits(bs, Close(bk, x, stamps[l]), l)
      /\ Close(bk, x, stamps[l]).open = None
  BY <1>1, <1>2, <1>3, Closed
<1> QED
  BY <1>4 DEF x

LEMMA ExecutedBook ==
  ASSUME StreamsOK, NEW bs \in Seq(Bars), bs # <<>>, Len(bs) <= Len(stamps),
         NEW bk, Fits(bs, bk, Len(bs)),
         NEW k \in 1..Len(signals), Matched(signals[k]),
         ExecutedAt(signals[k], stamps[Len(bs)]),
         NEW new, new = AfterSignal(bk, signals[k].side, bs[Len(bs)], stamps[Len(bs)])
  PROVE  /\ Fits(bs, new, Len(bs))
         /\ new.open # None /\ new.open.side = signals[k].side
<1> DEFINE l == Len(bs)
           t == stamps[l]
           side == signals[k].side
           x == Exit("signal_reversal", bs[l].open)
<1>1. CASE bk.open = None
  <2>1. new = Opened(bk, side, bs[l], t)
    BY <1>1 DEF AfterSignal
  <2> QED
    BY <1>1, <2>1, OpenedOn
<1>2. CASE bk.open # None /\ bk.open.side = side
  <2>1. new = bk
    BY <1>2 DEF AfterSignal
  <2> QED
    BY <1>2, <2>1
<1>3. CASE bk.open # None /\ bk.open.side # side
  <2>1. new = Opened(Close(bk, x, t), side, bs[l], t)
    BY <1>3 DEF AfterSignal
  <2>2. bs[l].open \in Int
    <3>1. bs[l] \in Bars
      OBVIOUS
    <3>2. bs[l].open \in Nat
      BY <3>1, EngineAssumption
    <3> QED
      BY <3>2
  <2>3. "signal_reversal" \in Reasons \ Rules
    BY DEF Reasons, Rules
  <2>4. Fits(bs, Close(bk, x, t), l) /\ Close(bk, x, t).open = None
    BY <1>3, <2>2, <2>3, ClosedUnruled
  <2> QED
    BY <2>1, <2>4, OpenedOn
<1> QED
  BY <1>1, <1>2, <1>3

-----------------------------------------------------------------------------
(* Scheduling.                                                             *)

\* Everything an index passes over is before the time it looks for.
LEMMA ForwardFirst ==
  ASSUME StreamsOK, NEW i \in 1..(Len(stamps) + 1), NEW t \in Int, NEW f, f = Forward(i, t)
  PROVE  /\ f \in i..(Len(stamps) + 1)
         /\ \A j \in i..(f - 1) : stamps[j] < t
         /\ f <= Len(stamps) => stamps[f] >= t
<1> DEFINE n == Len(stamps)
           S == {k \in i..n : stamps[k] >= t} \cup {n + 1}
<1>1. n \in Nat
  BY DEF StreamsOK
<1>2. S \in SUBSET Nat /\ S # {}
  BY <1>1
<1>3. f = Min(S)
  BY DEF Forward
<1>4. f \in S /\ \A k \in S : f <= k
  <2> HIDE DEF S
  <2> QED
    BY <1>2, <1>3, LeastNumber DEF Min
<1>5. f \in i..(n + 1)
  BY <1>1, <1>4
<1>6. ASSUME NEW j \in i..(f - 1) PROVE stamps[j] < t
  <2>1. j \in i..n /\ j < f
    BY <1>1, <1>5
  <2>2. ~(stamps[j] >= t)
    BY <1>4, <2>1
  <2>3. stamps[j] \in Int
    BY <2>1, StreamFacts
  <2> QED
    BY <2>2, <2>3
<1> QED
  BY <1>1, <1>4, <1>5, <1>6

\* Where the two indices come to for the next signal.
LEMMA IndicesMove ==
  ASSUME StreamsOK, CursorOK, cursor.sig <= Len(signals),
         NEW sig, sig = signals[cursor.sig],
         NEW m, m = Forward(cursor.match, sig.ts),
         NEW x, x = Forward(Max({cursor.exec, m}), EarliestExecution(sig))
  PROVE  /\ cursor.sig \in 1..Len(signals) /\ sig \in Signal /\ sig.ts \in Int
         /\ m \in 1..(Len(stamps) + 1) /\ x \in 1..(Len(stamps) + 1)
         /\ \A i \in 1..(m - 1) : stamps[i] < sig.ts
         /\ \A i \in 1..(x - 1) : stamps[i] < sig.ts + Interval
         /\ m <= Len(stamps) => stamps[m] >= sig.ts
         /\ x <= Len(stamps) => stamps[x] >= sig.ts + Interval
<1> DEFINE n == Len(stamps)
           a == cursor.match
           e == cursor.exec
           s == cursor.sig
           z == Max({e, m})
           u == sig.ts + Interval
<1>1. n \in Nat /\ a \in 1..(n + 1) /\ e \in 1..(n + 1) /\ s \in 1..Len(signals)
  BY StreamFacts DEF CursorOK
<1>2. sig \in Signal /\ sig.ts \in Int /\ u \in Int /\ sig.ts < u
  <2>1. Interval \in Nat \ {0}
    BY EngineAssumption
  <2> QED
    BY <1>1, <2>1, StreamFacts
<1>3. /\ \A i \in 1..(a - 1) : stamps[i] < sig.ts
      /\ \A i \in 1..(e - 1) : stamps[i] < u
  <2>1. s \in s..Len(signals)
    BY <1>1
  <2> QED
    BY <2>1 DEF CursorOK
<1>4. /\ m \in a..(n + 1)
      /\ \A j \in a..(m - 1) : stamps[j] < sig.ts
      /\ m <= n => stamps[m] >= sig.ts
  BY <1>1, <1>2, ForwardFirst
<1>5. x = Forward(z, u)
  BY DEF EarliestExecution
<1> HIDE DEF n, a, e, s, u
<1>6. m \in 1..(n + 1) /\ z \in {e, m} /\ z >= e /\ z >= m
  <2>1. m \in 1..(n + 1) /\ m \in Int /\ e \in Int
    BY <1>1, <1>4
  <2>2. z \in {e, m} /\ z >= e /\ z >= m
    BY <2>1, MaxOfTwo
  <2> QED
    BY <2>1, <2>2
<1>7. z \in 1..(n + 1)
  BY <1>1, <1>6
<1> HIDE DEF z
<1>8. /\ x \in z..(n + 1)
      /\ \A j \in z..(x - 1) : stamps[j] < u
      /\ x <= n => stamps[x] >= u
  BY <1>2, <1>5, <1>7, ForwardFirst DEF n
<1>9. ASSUME NEW i \in 1..(m - 1) PROVE stamps[i] < sig.ts
  BY <1>1, <1>3, <1>4
<1>10. ASSUME NEW i \in 1..(x - 1) PROVE stamps[i] < u
  <2>1. CASE i >= z
    <3>1. i \in z..(x - 1)
      BY <1>1, <1>7, <1>8, <2>1
    <3> QED
      BY <1>8, <3>1
  <2>2. CASE i < z
    <3>1. i \in 1..(e - 1) \/ i \in 1..(m - 1)
      BY <1>1, <1>6, <2>2
    <3>2. i \in 1..Len(stamps)
      BY <1>1, <1>7, <1>8 DEF n
    <3>3. stamps[i] \in Int
      BY <3>2, StreamFacts
    <3> QED
      BY <1>2, <1>3, <1>9, <3>1, <3>3
  <2> QED
    BY <1>1, <1>7, <2>1, <2>2
<1>11. x \in 1..(n + 1)
  BY <1>1, <1>7, <1>8
<1> QED
  BY <1>1, <1>2, <1>4, <1>6, <1>8, <1>9, <1>10, <1>11 DEF n, s, u

LEMMA OrderTyped ==
  ASSUME NEW q \in Seq([sig : Signal, exec : Slots]), NEW j \in 1..Len(q)
  PROVE  q[j].sig \in Signal /\ q[j].exec \in Slots /\ q[j].exec \in Int
<1> DEFINE Orders == [sig : Signal, exec : Slots]
<1>1. q[j] \in Orders
  <2> HIDE DEF Orders
  <2>1. q \in Seq(Orders)
    BY DEF Orders
  <2> QED
    BY <2>1
<1>2. q[j].exec \in Slots
  BY <1>1
<1> QED
  BY <1>1, <1>2 DEF Slots

\* Later signals are not executed earlier.
LEMMA ExecutedInOrder ==
  ASSUME StreamsOK, NEW a \in Signal, NEW b \in Signal, a.ts < b.ts,
         NEW ta, NEW tb, ExecutedAt(a, ta), ExecutedAt(b, tb)
  PROVE  ta <= tb
<1>1. a.ts \in Int /\ b.ts \in Int /\ Interval \in Int
  BY EngineAssumption DEF Signal, Slots
<1>2. PICK i \in 1..Len(stamps) : stamps[i] = tb
  BY DEF ExecutedAt
<1>3. tb \in Int /\ tb >= b.ts + Interval
  BY <1>2, StreamFacts DEF ExecutedAt
<1>4. tb >= a.ts + Interval
  BY <1>1, <1>3
<1> QED
  BY <1>2, <1>4 DEF ExecutedAt

-----------------------------------------------------------------------------
(* The steps.                                                              *)

\* The streams are read before the run starts.
LEMMA SameStreams ==
  ASSUME StreamsOK, stamps' = stamps, signals' = signals
  PROVE  /\ StreamsOK'
         /\ \A s : Matched(s) <=> Matched(s)'
         /\ \A s, t : ExecutedAt(s, t) <=> ExecutedAt(s, t)'
  BY DEF StreamsOK, Matched, ExecutedAt

LEMMA NextBook ==
  ASSUME StreamsOK, stamps' = stamps, signals' = signals,
         NEW bs, NEW bk, Fits(bs, bk, Len(bs)), bars' = bs, book' = bk
  PROVE  Fits(bars, book, Len(bars))'
  BY DEF Fits, Entered, Ended, Matched, ExecutedAt

LEMMA NextQueue ==
  ASSUME stamps' = stamps, signals' = signals,
         NEW q, NEW c, Schedules(q, c), queue' = q, cursor'.sig = c
  PROVE  QueueOK'
  BY DEF QueueOK, Schedules, Executable, Matched, ExecutedAt

LEMMA ScheduleSignalStep ==
  ASSUME EngineInv, ScheduleSignal
  PROVE  EngineInv'
<1> DEFINE n == Len(stamps)
           s == cursor.sig
           sig == signals[s]
           m == Forward(cursor.match, sig.ts)
           x == Forward(Max({cursor.exec, m}), EarliestExecution(sig))
<1>1. /\ StreamsOK /\ CursorOK /\ QueueOK /\ WalkOK /\ BookOK
      /\ s <= Len(signals)
      /\ UNCHANGED <<stamps, signals, sigIdx, bars, book, result>>
  BY DEF EngineInv, ScheduleSignal
<1>2. \/ /\ m > n
         /\ cursor' = [cursor EXCEPT !.sig = Len(signals) + 1, !.match = m]
         /\ queue' = queue
      \/ /\ m <= n /\ stamps[m] # sig.ts
         /\ cursor' = [cursor EXCEPT !.sig = @ + 1, !.match = m]
         /\ queue' = queue
      \/ /\ m <= n /\ stamps[m] = sig.ts /\ x > n
         /\ cursor' = [sig |-> Len(signals) + 1, match |-> m, exec |-> x]
         /\ queue' = queue
      \/ /\ m <= n /\ stamps[m] = sig.ts /\ x <= n
         /\ cursor' = [sig |-> s + 1, match |-> m, exec |-> x]
         /\ queue' = Append(queue, [sig |-> sig, exec |-> stamps[x]])
  BY DEF ScheduleSignal
<1>3. /\ s \in 1..Len(signals) /\ sig \in Signal /\ sig.ts \in Int
      /\ m \in 1..(n + 1) /\ x \in 1..(n + 1)
      /\ \A i \in 1..(m - 1) : stamps[i] < sig.ts
      /\ \A i \in 1..(x - 1) : stamps[i] < sig.ts + Interval
      /\ m <= n => stamps[m] >= sig.ts
      /\ x <= n => stamps[x] >= sig.ts + Interval
  BY <1>1, IndicesMove
<1>4. /\ n \in Nat /\ Len(signals) \in Nat /\ s \in Nat
      /\ Interval \in Int
      /\ cursor \in [sig : 1..(Len(signals) + 1), match : 1..(n + 1), exec : 1..(n + 1)]
  BY <1>1, <1>3, StreamFacts, EngineAssumption DEF CursorOK
<1>5. \A k \in s..Len(signals) : signals[k].ts \in Int /\ signals[k].ts >= sig.ts
  <2>1. ASSUME NEW k \in s..Len(signals) PROVE signals[k].ts \in Int /\ signals[k].ts >= sig.ts
    <3>1. k \in 1..Len(signals) /\ (k = s \/ s < k)
      BY <1>3, <1>4
    <3>2. s < k => sig.ts < signals[k].ts
      BY <1>1, <1>3, <3>1 DEF StreamsOK
    <3>3. signals[k].ts \in Int
      BY <1>1, <3>1, StreamFacts
    <3> QED
      BY <1>3, <3>1, <3>2, <3>3
  <2> QED
    BY <2>1
<1>6. bars = <<>>
  BY <1>1, <1>3, <1>4 DEF WalkOK
\* Signals that come to nothing: no candle of their own, or none to execute on.
<1>7. m > n => \A k \in s..Len(signals) : ~Matched(signals[k])
  <2>1. SUFFICES ASSUME m > n, NEW k \in s..Len(signals), NEW i \in 1..n,
                        stamps[i] = signals[k].ts
                 PROVE  FALSE
    BY DEF Matched
  <2>2. i \in 1..(m - 1)
    BY <1>3, <1>4, <2>1
  <2>3. stamps[i] < sig.ts /\ signals[k].ts >= sig.ts /\ signals[k].ts \in Int
    BY <1>3, <1>5, <2>2
  <2> QED
    BY <1>3, <2>1, <2>3
<1>8. m <= n /\ stamps[m] # sig.ts => ~Matched(sig)
  <2>1. SUFFICES ASSUME m <= n, stamps[m] # sig.ts, NEW i \in 1..n, stamps[i] = sig.ts
                 PROVE  FALSE
    BY DEF Matched
  <2>2. m \in 1..n /\ ~(i \in 1..(m - 1))
    BY <1>3, <1>4, <2>1
  <2>3. m <= i
    BY <1>3, <1>4, <2>2
  <2>4. stamps[m] <= stamps[i] /\ stamps[m] \in Int
    BY <1>1, <2>2, <2>3, StreamFacts
  <2> QED
    BY <1>3, <2>1, <2>4
<1>9. x > n => \A k \in s..Len(signals), i \in 1..n : ~(stamps[i] >= signals[k].ts + Interval)
  <2>1. SUFFICES ASSUME x > n, NEW k \in s..Len(signals), NEW i \in 1..n,
                        stamps[i] >= signals[k].ts + Interval
                 PROVE  FALSE
    OBVIOUS
  <2>2. i \in 1..(x - 1) /\ stamps[i] \in Int
    BY <1>1, <1>3, <1>4, <2>1, StreamFacts
  <2> DEFINE a == sig.ts
             b == signals[k].ts
             c == stamps[i]
  <2>3. c < a + Interval /\ b >= a /\ a \in Int /\ b \in Int /\ c \in Int
    BY <1>3, <1>5, <2>2
  <2>4. c >= b + Interval
    BY <2>1
  <2> HIDE DEF a, b, c
  <2> QED
    BY <1>4, <2>3, <2>4
<1>10. StreamsOK'
  BY <1>1, SameStreams
<1> HIDE DEF n, s, sig, m, x
<1>11. CursorOK'
  <2> DEFINE Sigs == 1..(Len(signals) + 1)
             Stamps == 1..(n + 1)
  <2>1. ASSUME NEW k \in (s + 1)..Len(signals)
        PROVE  /\ \A i \in 1..(m - 1) : stamps[i] < signals[k].ts
               /\ \A i \in 1..(x - 1) : stamps[i] < signals[k].ts + Interval
               /\ \A i \in 1..(cursor.exec - 1) : stamps[i] < signals[k].ts + Interval
    <3>1. k \in s..Len(signals)
      BY <1>4
    <3>2. /\ \A i \in 1..(m - 1) : i \in 1..n
          /\ \A i \in 1..(x - 1) : i \in 1..n
      BY <1>3, <1>4
    <3>3. \A i \in 1..n : stamps[i] \in Int
      BY <1>1, StreamFacts DEF n
    <3>4. signals[k].ts >= sig.ts /\ signals[k].ts \in Int
      BY <1>5, <3>1
    <3>5. \A i \in 1..(cursor.exec - 1) : stamps[i] < signals[k].ts + Interval
      BY <1>1, <3>1 DEF CursorOK, s
    <3>6. \A i \in 1..(m - 1) : stamps[i] < signals[k].ts
      BY <1>3, <3>2, <3>3, <3>4
    <3>7. ASSUME NEW i \in 1..(x - 1) PROVE stamps[i] < signals[k].ts + Interval
      BY <1>3, <1>4, <3>2, <3>3, <3>4
    <3> QED
      BY <3>5, <3>6, <3>7
  <2>2. /\ s + 1 \in Sigs /\ Len(signals) + 1 \in Sigs /\ m \in Stamps /\ x \in Stamps
        /\ cursor \in [sig : Sigs, match : Stamps, exec : Stamps]
    BY <1>3, <1>4
  <2>3. Sigs = 1..(Len(signals) + 1) /\ Stamps = 1..(n + 1)
    OBVIOUS
  <2> HIDE DEF Sigs, Stamps
  <2>4. CASE cursor' = [cursor EXCEPT !.sig = Len(signals) + 1, !.match = m]
    <3>1. /\ cursor' \in [sig : Sigs, match : Stamps, exec : Stamps]
          /\ cursor'.sig = Len(signals) + 1
      BY <2>2, <2>4
    <3>2. cursor'.sig..Len(signals) = {}
      BY <1>4, <3>1
    <3> QED
      BY <1>1, <3>1, <3>2, <2>3 DEF CursorOK, n
  <2>5. CASE cursor' = [cursor EXCEPT !.sig = @ + 1, !.match = m]
    <3>1. /\ cursor' \in [sig : Sigs, match : Stamps, exec : Stamps]
          /\ cursor'.sig = s + 1 /\ cursor'.match = m /\ cursor'.exec = cursor.exec
      BY <2>2, <2>5 DEF s
    <3> QED
      BY <1>1, <2>1, <2>3, <3>1 DEF CursorOK, n
  <2>6. CASE cursor' = [sig |-> Len(signals) + 1, match |-> m, exec |-> x]
    <3>1. /\ cursor' \in [sig : Sigs, match : Stamps, exec : Stamps]
          /\ cursor'.sig = Len(signals) + 1
      BY <2>2, <2>6
    <3>2. cursor'.sig..Len(signals) = {}
      BY <1>4, <3>1
    <3> QED
      BY <1>1, <3>1, <3>2, <2>3 DEF CursorOK, n
  <2>7. CASE cursor' = [sig |-> s + 1, match |-> m, exec |-> x]
    <3>1. /\ cursor' \in [sig : Sigs, match : Stamps, exec : Stamps]
          /\ cursor'.sig = s + 1 /\ cursor'.match = m /\ cursor'.exec = x
      BY <2>2, <2>7
    <3> QED
      BY <1>1, <2>1, <2>3, <3>1 DEF CursorOK, n
  <2> QED
    BY <1>2, <2>4, <2>5, <2>6, <2>7
\* A schedule that stays as it is misses nothing of the signals passed over.
<1>12. ASSUME queue' = queue, cursor'.sig \in (s + 1)..(Len(signals) + 1),
              \A k \in s..(cursor'.sig - 1) : ~Executable(signals[k])
       PROVE  QueueOK'
  <2> DEFINE c == cursor'.sig
  <2>1. /\ c \in (s + 1)..(Len(signals) + 1)
        /\ \A k \in s..(c - 1) : ~Executable(signals[k])
        /\ cursor'.sig = c
    BY <1>12
  <2> HIDE DEF c
  <2>2. \A j \in 1..Len(queue) :
          /\ \E k \in 1..(c - 1) : queue[j].sig = signals[k]
          /\ Matched(queue[j].sig) /\ ExecutedAt(queue[j].sig, queue[j].exec)
    <3>1. \A k \in 1..(s - 1) : k \in 1..(c - 1)
      BY <1>4, <2>1
    <3> QED
      BY <1>1, <3>1 DEF QueueOK, Schedules, s
  <2>3. ASSUME NEW k \in 1..(c - 1), Executable(signals[k])
        PROVE  \E j \in 1..Len(queue) : queue[j].sig = signals[k]
    <3>1. k \in 1..(s - 1)
      BY <1>4, <2>3, <2>1
    <3> QED
      BY <1>1, <2>3, <3>1 DEF QueueOK, Schedules, s
  <2>4. Schedules(queue, c)
    BY <1>1, <2>2, <2>3 DEF QueueOK, Schedules
  <2> QED
    BY <1>1, <1>12, <2>4, <2>1, NextQueue
\* A signal with a candle to execute it on is added at the end.
<1>13. ASSUME m <= n, stamps[m] = sig.ts, x <= n, cursor'.sig = s + 1,
              queue' = Append(queue, [sig |-> sig, exec |-> stamps[x]])
       PROVE  QueueOK'
  <2> DEFINE Order == [sig |-> sig, exec |-> stamps[x]]
             new == Append(queue, Order)
             l == Len(queue)
             Orders == [sig : Signal, exec : Slots]
  <2>1. m \in 1..n /\ x \in 1..n /\ stamps[x] \in Slots
    BY <1>1, <1>3, <1>4, <1>13, StreamFacts DEF n
  <2>2. Order \in Orders /\ Order.sig = sig /\ Order.exec = stamps[x]
    BY <1>3, <2>1
  <2>3. queue \in Seq(Orders)
    BY <1>1 DEF QueueOK, Schedules
  <2> HIDE DEF Order, Orders
  <2>4. /\ new \in Seq(Orders) /\ l \in Nat /\ Len(new) = l + 1
        /\ \A j \in 1..l : new[j] = queue[j]
        /\ new[l + 1] = Order
    BY <2>2, <2>3, AppendProperties
  <2>5. Matched(sig)
    BY <1>13, <2>1 DEF Matched, n
  <2>6. ExecutedAt(sig, stamps[x])
    <3>1. stamps[x] >= sig.ts + Interval
      BY <1>3, <1>13
    <3>2. ASSUME NEW i \in 1..n, stamps[i] >= sig.ts + Interval PROVE stamps[x] <= stamps[i]
      <4>1. stamps[i] \in Int /\ sig.ts + Interval \in Int
        BY <1>1, <1>3, <1>4, StreamFacts DEF n
      <4>2. ~(i \in 1..(x - 1))
        BY <1>3, <3>2, <4>1
      <4>3. x <= i
        BY <1>3, <1>4, <4>2
      <4> QED
        BY <1>1, <2>1, <4>3, StreamFacts DEF n
    <3> QED
      BY <2>1, <3>1, <3>2 DEF ExecutedAt, n
  <2>7. \A j \in 1..l :
          /\ \E k \in 1..(s - 1) : queue[j].sig = signals[k]
          /\ Matched(queue[j].sig) /\ ExecutedAt(queue[j].sig, queue[j].exec)
    BY <1>1 DEF QueueOK, Schedules, s
  <2>8. ASSUME NEW j \in 1..Len(new)
        PROVE  /\ \E k \in 1..((s + 1) - 1) : new[j].sig = signals[k]
               /\ Matched(new[j].sig) /\ ExecutedAt(new[j].sig, new[j].exec)
    <3>1. s \in 1..((s + 1) - 1) /\ \A k \in 1..(s - 1) : k \in 1..((s + 1) - 1)
      BY <1>3, <1>4
    <3>2. CASE j \in 1..l
      BY <2>4, <2>7, <3>1, <3>2
    <3>3. CASE j = l + 1
      BY <2>2, <2>4, <2>5, <2>6, <3>1, <3>3 DEF sig, s
    <3> QED
      BY <2>4, <3>2, <3>3
  <2>9. ASSUME NEW i \in 1..Len(new), NEW j \in 1..Len(new), i < j
        PROVE  new[i].sig.ts < new[j].sig.ts
    <3>1. i \in 1..l
      BY <2>4, <2>9
    <3>2. CASE j \in 1..l
      BY <1>1, <2>4, <2>9, <3>1, <3>2 DEF QueueOK, Schedules
    <3>3. CASE j = l + 1
      <4>1. PICK k \in 1..(s - 1) : queue[i].sig = signals[k]
        BY <2>7, <3>1
      <4>2. k \in 1..Len(signals) /\ k < s
        BY <1>3, <1>4
      <4>3. signals[k].ts < sig.ts
        BY <1>1, <1>3, <4>2 DEF StreamsOK, sig, s
      <4> QED
        BY <2>2, <2>4, <3>1, <3>3, <4>1, <4>3
    <3> QED
      BY <2>4, <3>2, <3>3
  <2>10. ASSUME NEW k \in 1..((s + 1) - 1), Executable(signals[k])
         PROVE  \E j \in 1..Len(new) : new[j].sig = signals[k]
    <3>1. CASE k = s
      <4>1. l + 1 \in 1..Len(new)
        BY <2>4
      <4> QED
        BY <2>2, <2>4, <3>1, <4>1 DEF sig, s
    <3>2. CASE k # s
      <4>1. k \in 1..(s - 1)
        BY <1>3, <1>4, <3>2
      <4>2. PICK j \in 1..l : queue[j].sig = signals[k]
        BY <1>1, <2>10, <4>1 DEF QueueOK, Schedules, s
      <4>3. j \in 1..Len(new) /\ new[j] = queue[j]
        BY <2>4
      <4> QED
        BY <4>2, <4>3
    <3> QED
      BY <3>1, <3>2
  <2>11. queue' = new
    BY <1>13 DEF Order
  <2> HIDE DEF new
  <2>12. Schedules(new, s + 1)
    <3>1. new \in Seq([sig : Signal, exec : Slots])
      BY <2>4 DEF Orders
    <3> DEFINE c == s + 1
    <3>2. \A j \in 1..Len(new) :
            /\ \E k \in 1..(c - 1) : new[j].sig = signals[k]
            /\ Matched(new[j].sig) /\ ExecutedAt(new[j].sig, new[j].exec)
      BY <2>8
    <3>3. \A k \in 1..(c - 1) :
            Executable(signals[k]) => \E j \in 1..Len(new) : new[j].sig = signals[k]
      BY <2>10
    <3> HIDE DEF c
    <3>4. Schedules(new, c)
      BY <2>9, <3>1, <3>2, <3>3 DEF Schedules
    <3> QED
      BY <3>4 DEF c
  <2> QED
    BY <1>1, <1>13, <2>11, <2>12, NextQueue
<1>14. QueueOK'
  <2>1. CASE m > n /\ cursor' = [cursor EXCEPT !.sig = Len(signals) + 1, !.match = m]
               /\ queue' = queue
    <3>1. cursor'.sig = Len(signals) + 1 /\ Len(signals) + 1 \in (s + 1)..(Len(signals) + 1)
      BY <1>3, <1>4, <2>1
    <3>2. \A k \in s..(cursor'.sig - 1) : k \in s..Len(signals)
      BY <1>4, <3>1
    <3>3. \A k \in s..(cursor'.sig - 1) : ~Executable(signals[k])
      BY <1>7, <2>1, <3>2 DEF Executable
    <3> QED
      BY <1>12, <2>1, <3>1, <3>3
  <2>2. CASE m <= n /\ stamps[m] # sig.ts /\ queue' = queue
               /\ cursor' = [cursor EXCEPT !.sig = @ + 1, !.match = m]
    <3>1. cursor'.sig = s + 1 /\ s + 1 \in (s + 1)..(Len(signals) + 1)
      BY <1>3, <1>4, <2>2 DEF s
    <3>2. \A k \in s..(cursor'.sig - 1) : k = s
      BY <1>3, <1>4, <3>1
    <3>3. ~Executable(signals[s])
      BY <1>8, <2>2 DEF sig, Executable
    <3>4. \A k \in s..(cursor'.sig - 1) : ~Executable(signals[k])
      BY <3>2, <3>3
    <3> QED
      BY <1>12, <2>2, <3>1, <3>4
  <2>3. CASE m <= n /\ stamps[m] = sig.ts /\ x > n /\ queue' = queue
               /\ cursor' = [sig |-> Len(signals) + 1, match |-> m, exec |-> x]
    <3>1. cursor'.sig = Len(signals) + 1 /\ Len(signals) + 1 \in (s + 1)..(Len(signals) + 1)
      BY <1>3, <1>4, <2>3
    <3>2. \A k \in s..(cursor'.sig - 1) : k \in s..Len(signals)
      BY <1>4, <3>1
    <3>3. \A k \in s..(cursor'.sig - 1) : ~Executable(signals[k])
      BY <1>9, <2>3, <3>2 DEF Executable, n
    <3> QED
      BY <1>12, <2>3, <3>1, <3>3
  <2>4. CASE m <= n /\ stamps[m] = sig.ts /\ x <= n
               /\ cursor' = [sig |-> s + 1, match |-> m, exec |-> x]
               /\ queue' = Append(queue, [sig |-> sig, exec |-> stamps[x]])
    BY <1>13, <2>4
  <2> QED
    BY <1>2, <2>1, <2>2, <2>3, <2>4
<1>15. WalkOK'
  <2>1. sigIdx = 0 /\ Len(queue') \in Nat
    BY <1>1, <1>6, <1>14 DEF WalkOK, QueueOK, Schedules
  <2>2. \A j \in 1..Len(queue') : ~(j <= 0)
    BY <2>1
  <2> QED
    BY <1>1, <1>6, <2>1, <2>2 DEF WalkOK
<1>16. BookOK'
  BY <1>1, <1>6, NextBook DEF BookOK
<1> QED
  BY <1>10, <1>11, <1>14, <1>15, <1>16 DEF EngineInv

LEMMA WalkCandleStep ==
  ASSUME EngineInv, WalkCandle
  PROVE  EngineInv'
<1> DEFINE n == Len(bars)
<1>1. /\ StreamsOK /\ CursorOK /\ QueueOK /\ WalkOK /\ BookOK
      /\ cursor.sig > Len(signals) /\ n < Len(stamps) /\ ~Due
      /\ UNCHANGED <<stamps, signals, cursor, queue, sigIdx, result>>
  BY DEF EngineInv, WalkCandle
<1>2. PICK b \in Bars : /\ bars' = Append(bars, b)
                        /\ book' = AfterExit(book, b, stamps[n + 1])
  BY DEF WalkCandle
<1>3. bars \in Seq(Bars) /\ n \in Nat /\ queue \in Seq([sig : Signal, exec : Slots])
  BY <1>1 DEF WalkOK, QueueOK, Schedules
<1> DEFINE new == Append(bars, b)
           bk == AfterExit(book, b, stamps[n + 1])
<1>4. Fits(new, bk, Len(new))
  BY <1>1, <1>3, WalkedBook DEF BookOK
<1>5. new \in Seq(Bars) /\ Len(new) = n + 1 /\ new # <<>>
  BY <1>3, AppendProperties
<1>6. n + 1 \in 1..Len(stamps) /\ Len(stamps) \in Nat /\ stamps[n + 1] \in Int
  BY <1>1, <1>3, StreamFacts
<1> HIDE DEF new, bk
\* The new candle is later than all that was executed, and what is still
\* scheduled is not before it.
<1>7. ASSUME NEW j \in 1..Len(queue), j <= sigIdx
      PROVE  queue[j].exec < stamps[n + 1]
  <2>1. queue[j].exec <= Now
    BY <1>1, <1>7 DEF WalkOK
  <2>2. n > 0
    BY <1>1, <1>3, <1>7 DEF WalkOK
  <2>3. n \in 1..Len(stamps) /\ Now < stamps[n + 1] /\ Now \in Int
    BY <1>1, <1>3, <1>6, <2>2, StreamFacts DEF Now
  <2>4. queue[j].exec \in Int
    BY <1>3, OrderTyped
  <2> QED
    BY <1>6, <2>1, <2>3, <2>4
<1>8. ASSUME NEW j \in 1..Len(queue), j > sigIdx
      PROVE  queue[j].exec >= stamps[n + 1]
  <2>1. PICK i \in 1..Len(stamps) : stamps[i] = queue[j].exec
    BY <1>1 DEF QueueOK, Schedules, ExecutedAt
  <2>2. stamps[i] \in Int /\ i \in Nat
    BY <1>1, StreamFacts
  <2>3. CASE i <= n
    <3>1. n \in 1..Len(stamps) /\ bars # <<>>
      BY <1>3, <1>6, <2>3
    <3>2. queue[j].exec <= Now /\ Now \in Int
      BY <1>1, <2>1, <2>3, <3>1, StreamFacts DEF Now
    <3>3. queue[j].exec = Now
      BY <1>1, <1>8, <2>1, <2>2, <3>1, <3>2 DEF WalkOK
    <3>4. sigIdx + 1 \in 1..Len(queue) /\ sigIdx < Len(queue) /\ sigIdx \in Nat
      BY <1>1, <1>3, <1>8 DEF WalkOK
    <3>5. queue[sigIdx + 1].exec <= queue[j].exec
      <4>1. CASE j = sigIdx + 1
        BY <2>1, <2>2, <4>1
      <4>2. CASE j # sigIdx + 1
        <5>1. sigIdx + 1 < j
          BY <1>8, <3>4, <4>2
        <5>2. /\ queue[sigIdx + 1].sig \in Signal /\ queue[j].sig \in Signal
              /\ queue[sigIdx + 1].sig.ts < queue[j].sig.ts
              /\ ExecutedAt(queue[sigIdx + 1].sig, queue[sigIdx + 1].exec)
              /\ ExecutedAt(queue[j].sig, queue[j].exec)
          BY <1>1, <1>3, <3>4, <5>1, OrderTyped DEF QueueOK, Schedules
        <5> QED
          BY <1>1, <5>2, ExecutedInOrder
      <4> QED
        BY <4>1, <4>2
    <3>6. queue[sigIdx + 1].exec >= Now /\ queue[sigIdx + 1].exec \in Int
      <4>1. queue[sigIdx + 1].exec \in Int
        BY <1>3, <3>4, OrderTyped
      <4> QED
        BY <1>1, <3>1, <3>4, <4>1 DEF WalkOK
    <3>7. queue[sigIdx + 1].exec = Now
      BY <3>2, <3>3, <3>5, <3>6
    <3> QED
      BY <1>1, <3>1, <3>4, <3>7 DEF Due
  <2>4. CASE i > n
    <3>1. n + 1 <= i
      BY <1>3, <2>2, <2>4
    <3> QED
      BY <1>1, <1>6, <2>1, <3>1, StreamFacts
  <2> QED
    BY <1>3, <2>2, <2>3, <2>4
<1>9. StreamsOK'
  BY <1>1, SameStreams
<1>10. CursorOK'
  BY <1>1 DEF CursorOK
<1>11. QueueOK'
  BY <1>1, NextQueue DEF QueueOK
<1>12. bars' = new /\ book' = bk
  BY <1>2 DEF new, bk
<1>13. Now' = stamps[n + 1]
  BY <1>1, <1>5, <1>12 DEF Now
<1>14. WalkOK'
  <2>1. bars' \in Seq(Bars) /\ Len(bars') <= Len(stamps') /\ bars' # <<>>
    BY <1>1, <1>5, <1>6, <1>12
  <2>2. cursor'.sig = Len(signals') + 1
    BY <1>1, StreamFacts DEF CursorOK
  <2>3. sigIdx' \in 0..Len(queue')
    BY <1>1 DEF WalkOK
  <2>4. \A j \in 1..Len(queue') : j <= sigIdx' => queue'[j].exec <= Now'
    <3>1. \A j \in 1..Len(queue) : queue[j].exec \in Int
      BY <1>3, OrderTyped
    <3>2. \A j \in 1..Len(queue) : j <= sigIdx => queue[j].exec <= stamps[n + 1]
      BY <1>6, <1>7, <3>1
    <3> QED
      BY <1>1, <1>13, <3>2
  <2>5. \A j \in 1..Len(queue') : j > sigIdx' => queue'[j].exec >= Now'
    BY <1>1, <1>8, <1>13
  <2> QED
    BY <2>1, <2>2, <2>3, <2>4, <2>5 DEF WalkOK
<1>15. BookOK'
  <2>1. Fits(bars, book, Len(bars))'
    BY <1>1, <1>4, <1>12, NextBook
  <2>2. ~(sigIdx' > 0 /\ queue'[sigIdx'].exec = Now')
    <3>1. SUFFICES ASSUME sigIdx > 0, queue[sigIdx].exec = stamps[n + 1] PROVE FALSE
      BY <1>1, <1>13
    <3>2. sigIdx \in 1..Len(queue) /\ sigIdx <= sigIdx
      BY <1>1, <1>3, <3>1 DEF WalkOK
    <3> QED
      BY <1>6, <1>7, <3>1, <3>2
  <2> QED
    BY <2>1, <2>2 DEF BookOK
<1> QED
  BY <1>9, <1>10, <1>11, <1>14, <1>15 DEF EngineInv

LEMMA ExecuteSignalStep ==
  ASSUME EngineInv, ExecuteSignal
  PROVE  EngineInv'
<1> DEFINE n == Len(bars)
           d == sigIdx + 1
           sig == queue[d].sig
           new == AfterSignal(book, sig.side, Last(bars), Now)
<1>1. /\ StreamsOK /\ CursorOK /\ QueueOK /\ WalkOK /\ BookOK
      /\ bars # <<>> /\ sigIdx < Len(queue) /\ queue[d].exec = Now
      /\ book' = new /\ sigIdx' = d
      /\ UNCHANGED <<stamps, signals, cursor, queue, bars, result>>
  BY DEF EngineInv, ExecuteSignal, Due
<1>2. /\ bars \in Seq(Bars) /\ n \in 1..Len(stamps) /\ Last(bars) = bars[n]
      /\ queue \in Seq([sig : Signal, exec : Slots])
      /\ sigIdx \in Nat /\ d \in 1..Len(queue)
  BY <1>1 DEF WalkOK, QueueOK, Schedules, Last
<1>3. \A j \in 1..Len(queue) : queue[j].exec \in Int
  BY <1>2, OrderTyped
<1>4. PICK k \in 1..(cursor.sig - 1) : sig = signals[k]
  BY <1>1, <1>2 DEF QueueOK, Schedules
<1>5. k \in 1..Len(signals)
  <2>1. cursor.sig \in 1..(Len(signals) + 1) /\ Len(signals) \in Nat
    BY <1>1, StreamFacts DEF CursorOK
  <2> QED
    BY <2>1
<1>6. Matched(signals[k]) /\ ExecutedAt(signals[k], stamps[n])
  BY <1>1, <1>2, <1>4 DEF QueueOK, Schedules, Now
<1>7. new = AfterSignal(book, signals[k].side, bars[n], stamps[n])
  BY <1>2, <1>4 DEF Now
<1> HIDE DEF new, d
<1>8. /\ Fits(bars, new, n)
      /\ new.open # None /\ new.open.side = signals[k].side
  BY <1>1, <1>2, <1>5, <1>6, <1>7, ExecutedBook DEF BookOK
<1>9. StreamsOK'
  BY <1>1, SameStreams
<1>10. CursorOK'
  BY <1>1 DEF CursorOK
<1>11. QueueOK'
  BY <1>1, NextQueue DEF QueueOK
<1>12. Now' = Now
  BY <1>1 DEF Now
<1>13. WalkOK'
  <2>1. d \in 0..Len(queue)
    BY <1>2
  <2>2. ASSUME NEW j \in 1..Len(queue), j <= d PROVE queue[j].exec <= Now
    <3>1. j <= sigIdx \/ j = d
      BY <1>2, <2>2 DEF d
    <3> QED
      BY <1>1, <1>3, <3>1 DEF WalkOK
  <2>3. ASSUME NEW j \in 1..Len(queue), j > d PROVE queue[j].exec >= Now
    <3>1. j > sigIdx
      BY <1>2, <2>3 DEF d
    <3> QED
      BY <1>1, <3>1 DEF WalkOK
  <2> QED
    BY <1>1, <1>12, <2>1, <2>2, <2>3 DEF WalkOK
<1>14. BookOK'
  <2>1. Fits(bars, book, Len(bars))'
    BY <1>1, <1>8, NextBook
  <2>2. book'.open # None /\ book'.open.side = queue'[sigIdx'].sig.side
    BY <1>1, <1>4, <1>8
  <2> QED
    BY <2>1, <2>2 DEF BookOK
<1> QED
  BY <1>9, <1>10, <1>11, <1>13, <1>14 DEF EngineInv

LEMMA FinishStep ==
  ASSUME EngineInv, Finish
  PROVE  EngineInv'
<1> DEFINE n == Len(bars)
           x == Exit("end_of_data", Last(bars).close)
           bk == IF book.open = None THEN book ELSE Close(book, x, Last(stamps))
<1>1. /\ StreamsOK /\ CursorOK /\ QueueOK /\ WalkOK /\ BookOK
      /\ n = Len(stamps) /\ book' = bk /\ result' # <<>>
      /\ UNCHANGED <<stamps, signals, cursor, queue, sigIdx, bars>>
  BY DEF EngineInv, Finish
<1>2. /\ bars \in Seq(Bars) /\ bars # <<>> /\ n \in 1..n
      /\ Last(bars) = bars[n] /\ Last(stamps) = stamps[n]
  BY <1>1, StreamFacts DEF WalkOK, Last
<1>3. Fits(bars, bk, n)
  <2>1. CASE book.open = None
    BY <1>1, <2>1 DEF BookOK
  <2>2. CASE book.open # None
    <3>1. bars[n] \in Bars
      BY <1>2
    <3>2. bars[n].close \in Nat
      BY <3>1, EngineAssumption
    <3>3. "end_of_data" \in Reasons \ Rules
      BY DEF Reasons, Rules
    <3>4. n <= Len(stamps) /\ bars[n].close \in Int
      BY <1>1, <1>2, <3>2
    <3>5. Fits(bars, Close(book, Exit("end_of_data", bars[n].close), stamps[n]), n)
      BY <1>1, <1>2, <2>2, <3>3, <3>4, ClosedUnruled DEF BookOK
    <3> QED
      BY <1>2, <2>2, <3>5
  <2> QED
    BY <2>1, <2>2
<1> HIDE DEF bk
<1>4. StreamsOK'
  BY <1>1, SameStreams
<1>5. CursorOK'
  BY <1>1 DEF CursorOK
<1>6. QueueOK'
  BY <1>1, NextQueue DEF QueueOK
<1>7. WalkOK'
  BY <1>1 DEF WalkOK, Now
<1>8. BookOK'
  <2>1. Fits(bars, book, Len(bars))'
    BY <1>1, <1>3, NextBook
  <2> QED
    BY <1>1, <2>1 DEF BookOK
<1> QED
  BY <1>4, <1>5, <1>6, <1>7, <1>8 DEF EngineInv

-----------------------------------------------------------------------------
(* The invariant of every run.                                             *)

\* Bounded lists are sequences.
LEMMA ListsAreSequences ==
  ASSUME NEW S, NEW s \in Lists(S)
  PROVE  s \in Seq(S) /\ DOMAIN s = 1..Len(s)
<1>1. PICK k \in 0..Horizon : s \in [1..k -> S]
  BY DEF Lists
<1>2. k \in Nat
  BY EngineAssumption
<1> QED
  BY <1>1, <1>2

LEMMA InitiallyTrue == Init => EngineInv
<1> SUFFICES ASSUME Init PROVE EngineInv
  OBVIOUS
<1>1. StreamsOK
  <2>1. stamps \in Lists(Slots) /\ stamps # <<>> /\ Ascending(stamps)
    BY DEF Init
  <2>2. stamps \in Seq(Slots) /\ DOMAIN stamps = 1..Len(stamps)
    BY <2>1, ListsAreSequences
  <2>3. \A i, j \in 1..Len(stamps) : i < j => stamps[i] < stamps[j]
    BY <2>1, <2>2 DEF Ascending
  <2>4. signals \in Lists(Signal) /\ Ascending([k \in DOMAIN signals |-> signals[k].ts])
    BY DEF Init, Signal
  <2>5. signals \in Seq(Signal) /\ DOMAIN signals = 1..Len(signals)
    BY <2>4, ListsAreSequences
  <2>6. \A i, j \in 1..Len(signals) : i < j => signals[i].ts < signals[j].ts
    BY <2>4, <2>5 DEF Ascending
  <2> QED
    BY <2>1, <2>2, <2>3, <2>5, <2>6 DEF StreamsOK
<1>2. Len(stamps) \in Nat /\ Len(signals) \in Nat
  BY <1>1, StreamFacts
<1>3. CursorOK
  <2>1. cursor = [sig |-> 1, match |-> 1, exec |-> 1]
    BY DEF Init
  <2>2. 1 \in 1..(Len(signals) + 1) /\ 1 \in 1..(Len(stamps) + 1)
    BY <1>2
  <2>3. 1..(cursor.match - 1) = {} /\ 1..(cursor.exec - 1) = {}
    BY <2>1
  <2> QED
    BY <2>1, <2>2, <2>3 DEF CursorOK
<1>4. queue = <<>> /\ sigIdx = 0 /\ bars = <<>> /\ cursor.sig = 1
  BY DEF Init
<1>5. QueueOK
  BY <1>4 DEF QueueOK, Schedules
<1>6. WalkOK
  BY <1>2, <1>4 DEF WalkOK
<1>7. BookOK
  <2>1. book = [open |-> None, trades |-> <<>>, equity |-> Capital,
                peak |-> Capital, maxdd |-> <<0, 1>>]
    BY DEF Init
  <2>2. book \in Book
    BY <2>1, EngineAssumption DEF Book
  <2>3. book.open = None /\ Len(book.trades) = 0
    BY <2>1
  <2> QED
    BY <1>4, <2>2, <2>3 DEF BookOK, Fits
<1> QED
  BY <1>1, <1>3, <1>5, <1>6, <1>7 DEF EngineInv

\* The schedule and the walk of the engine are as EngineInv says, for any
\* candles, signals, rules and charges (RunBacktest and scheduleSignals).
THEOREM EngineInvariant == Spec => []EngineInv
<1>1. EngineInv /\ [Next]_vars => EngineInv'
  <2> SUFFICES ASSUME EngineInv, [Next]_vars PROVE EngineInv'
    OBVIOUS
  <2>1. CASE ScheduleSignal
    BY <2>1, ScheduleSignalStep
  <2>2. CASE WalkCandle
    BY <2>2, WalkCandleStep
  <2>3. CASE ExecuteSignal
    BY <2>3, ExecuteSignalStep
  <2>4. CASE Finish
    BY <2>4, FinishStep
  <2>5. CASE UNCHANGED vars
    <3>1. UNCHANGED <<stamps, signals, cursor, queue, sigIdx, bars, book, result>>
      BY <2>5 DEF vars
    <3>2. StreamsOK' /\ CursorOK'
      BY <3>1, SameStreams DEF EngineInv, CursorOK
    <3>3. QueueOK' /\ WalkOK'
      BY <3>1, NextQueue DEF EngineInv, QueueOK, WalkOK, Now
    <3>4. Fits(bars, book, Len(bars))'
      BY <3>1, NextBook DEF EngineInv, BookOK
    <3>5. BookOK'
      BY <3>1, <3>4 DEF EngineInv, BookOK, Now
    <3> QED
      BY <3>2, <3>3, <3>5 DEF EngineInv
  <2> QED
    BY <2>1, <2>2, <2>3, <2>4, <2>5 DEF Next
<1> QED
  BY InitiallyTrue, <1>1, PTL DEF Spec

-----------------------------------------------------------------------------
(* What follows from it.                                                   *)

\* Candles walked over, by their time.
LEMMA CandleByTime ==
  ASSUME EngineInv, NEW c \in 1..Len(bars)
  PROVE  c \in 1..Len(stamps) /\ BarAt(stamps[c]) = bars[c]
<1>1. \A i \in 1..Len(bars) : i \in 1..Len(stamps)
  BY StreamFacts DEF EngineInv, WalkOK
<1>2. ASSUME NEW i \in 1..Len(bars), stamps[i] = stamps[c] PROVE i = c
  <2>1. i \in 1..Len(stamps) /\ c \in 1..Len(stamps)
    BY <1>1
  <2>2. stamps[i] \in Int /\ stamps[c] \in Int
        /\ (i < c => stamps[i] < stamps[c]) /\ (c < i => stamps[c] < stamps[i])
    BY <2>1, StreamFacts DEF EngineInv
  <2> QED
    BY <1>2, <2>1, <2>2
<1>3. (CHOOSE i \in 1..Len(bars) : stamps[i] = stamps[c]) = c
  BY <1>2
<1> QED
  BY <1>1, <1>3 DEF BarAt

\* The positions the properties speak of, by their number.
LEMMA PositionsEntered ==
  ASSUME EngineInv, NEW p \in Positions
  PROVE  /\ p.side \in Sides /\ p.entry \in Nat /\ p.entryTs \in Slots
         /\ Entered(bars, p)
<1>1. Fits(bars, book, Len(bars)) /\ book \in Book
  BY DEF EngineInv, BookOK, Fits
<1>2. CASE p \in Trades
  <2>1. book.trades \in Seq(Trade)
    BY <1>1 DEF Book
  <2>2. PICK i \in 1..Len(book.trades) : p = book.trades[i]
    BY <1>2, <2>1 DEF Trades, ToSet
  <2>3. p \in Trade
    <3> HIDE DEF Trade
    <3> QED
      BY <2>1, <2>2
  <2> QED
    BY <1>1, <2>2, <2>3 DEF Fits, Trade
<1>3. CASE p = book.open /\ p # None
  BY <1>1, <1>3 DEF Fits, Book, Position
<1> QED
  BY <1>2, <1>3 DEF Positions

LEMMA StampSet ==
  ASSUME StreamsOK
  PROVE  /\ ToSet(stamps) = {stamps[i] : i \in 1..Len(stamps)}
         /\ DOMAIN signals = 1..Len(signals)
  BY DEF StreamsOK, ToSet

LEMMA EnteredOnASignal == EngineInv => NoLookAhead
<1> SUFFICES ASSUME EngineInv, NEW p \in Positions
             PROVE  \E k \in DOMAIN signals :
                      LET s == signals[k] IN
                      /\ s.side = p.side
                      /\ s.ts \in ToSet(stamps)
                      /\ p.entryTs >= s.ts + Interval
                      /\ \A t \in ToSet(stamps) : t >= s.ts + Interval => p.entryTs <= t
                      /\ p.entry = BarAt(p.entryTs).open
  BY DEF NoLookAhead
<1>1. Entered(bars, p)
  BY PositionsEntered
<1>2. PICK c \in 1..Len(bars) : p.entryTs = stamps[c] /\ p.entry = bars[c].open
  BY <1>1 DEF Entered
<1>3. p.entry = BarAt(p.entryTs).open
  BY <1>2, CandleByTime
<1>4. PICK k \in 1..Len(signals) :
        signals[k].side = p.side /\ Matched(signals[k]) /\ ExecutedAt(signals[k], p.entryTs)
  BY <1>1 DEF Entered
<1>5. ToSet(stamps) = {stamps[i] : i \in 1..Len(stamps)} /\ k \in DOMAIN signals
  BY StampSet DEF EngineInv
<1>6. /\ signals[k].ts \in ToSet(stamps)
      /\ p.entryTs >= signals[k].ts + Interval
      /\ \A t \in ToSet(stamps) : t >= signals[k].ts + Interval => p.entryTs <= t
  BY <1>4, <1>5 DEF Matched, ExecutedAt
<1> QED
  BY <1>3, <1>4, <1>5, <1>6

LEMMA RulesNotSleptThrough == EngineInv => ExitsAtFirstChance
<1> SUFFICES ASSUME EngineInv PROVE ExitsAtFirstChance
  OBVIOUS
<1>1. Fits(bars, book, Len(bars))
  BY DEF EngineInv, BookOK
<1>2. ASSUME NEW p, NEW c \in 1..Len(bars)
      PROVE  Fires(p, stamps[c]) <=> FiresOn(p, bars[c], stamps[c])
  <2>1. BarAt(stamps[c]) = bars[c]
    BY CandleByTime
  <2> QED
    BY <2>1 DEF Fires, FiresOn
<1>3. ASSUME NEW t \in Walked, book.open # None, t > book.open.entryTs
      PROVE  ~Fires(book.open, t)
  <2>1. PICK c \in 1..Len(bars) : t = stamps[c]
    BY DEF Walked
  <2>2. ~FiresOn(book.open, bars[c], stamps[c])
    BY <1>1, <1>3, <2>1 DEF Fits
  <2> QED
    BY <1>2, <2>1, <2>2
<1>4. ASSUME NEW tr \in Trades, NEW t \in Walked, t > tr.entryTs
      PROVE  /\ t < tr.exitTs => ~Fires(tr, t)
             /\ t = tr.exitTs =>
                  (Fires(tr, t) <=> tr.reason \in {"target", "stop_loss", "time_exit"})
  <2>1. PICK c \in 1..Len(bars) : t = stamps[c]
    BY DEF Walked
  <2>2. book.trades \in Seq(Trade)
    BY <1>1 DEF Fits, Book
  <2>3. PICK i \in 1..Len(book.trades) : tr = book.trades[i]
    BY <2>2 DEF Trades, ToSet
  <2>4. Ended(bars, tr)
    BY <1>1, <2>3 DEF Fits
  <2>5. /\ t < tr.exitTs => ~FiresOn(tr, bars[c], stamps[c])
        /\ t = tr.exitTs => (FiresOn(tr, bars[c], stamps[c]) <=> tr.reason \in Rules)
    BY <1>4, <2>1, <2>4 DEF Ended
  <2> QED
    BY <1>2, <2>1, <2>5 DEF Rules
<1> QED
  BY <1>3, <1>4 DEF ExitsAtFirstChance

LEMMA HeldAfterSignal ==
  ASSUME EngineInv, NEW k \in 1..Len(signals), Matched(signals[k]), bars # <<>>, ~Due,
         ExecutedAt(signals[k], Now), result = <<>>,
         \A j \in 1..Len(signals) :
           j > k => ~Matched(signals[j]) \/ Now < signals[j].ts + Interval
  PROVE  book.open # None /\ book.open.side = signals[k].side
<1>1. StreamsOK /\ CursorOK /\ QueueOK /\ WalkOK /\ BookOK
  BY DEF EngineInv
<1>2. queue \in Seq([sig : Signal, exec : Slots]) /\ sigIdx \in 0..Len(queue)
  BY <1>1 DEF QueueOK, Schedules, WalkOK
<1>3. cursor.sig = Len(signals) + 1 /\ Len(signals) \in Nat
  BY <1>1, StreamFacts DEF WalkOK
<1>4. PICK i \in 1..Len(stamps) : stamps[i] = Now /\ Now >= signals[k].ts + Interval
  BY DEF ExecutedAt
<1>5. Now \in Int
  BY <1>1, <1>4, StreamFacts
<1>6. Executable(signals[k])
  BY <1>4 DEF Executable
<1>7. PICK j \in 1..Len(queue) : queue[j].sig = signals[k]
  <2>1. k \in 1..(cursor.sig - 1)
    BY <1>3
  <2> QED
    BY <1>1, <1>6, <2>1 DEF QueueOK, Schedules
\* Both executions are the first candle late enough.
<1>8. queue[j].exec = Now
  <2>1. ExecutedAt(signals[k], queue[j].exec) /\ queue[j].exec \in Int
    BY <1>1, <1>2, <1>7, OrderTyped DEF QueueOK, Schedules
  <2>2. queue[j].exec <= Now
    BY <1>4, <2>1 DEF ExecutedAt
  <2>3. Now <= queue[j].exec
    BY <2>1 DEF ExecutedAt
  <2> QED
    BY <1>5, <2>1, <2>2, <2>3
<1>9. j <= sigIdx
  <2>1. SUFFICES ASSUME j > sigIdx PROVE FALSE
    BY <1>2
  <2> DEFINE d == sigIdx + 1
  <2>2. d \in 1..Len(queue) /\ sigIdx < Len(queue) /\ (j = d \/ d < j)
    BY <1>2, <2>1
  <2>3. queue[d].exec >= Now /\ queue[d].exec \in Int
    <3>1. d > sigIdx
      BY <1>2
    <3>2. queue[d].exec \in Int
      BY <1>2, <2>2, OrderTyped
    <3> QED
      BY <1>1, <2>2, <3>1, <3>2 DEF WalkOK
  <2>4. queue[d].exec # Now
    BY <2>2 DEF Due
  <2>5. d < j
    BY <1>8, <2>2, <2>4
  <2>6. /\ queue[d].sig \in Signal /\ queue[j].sig \in Signal
        /\ queue[d].sig.ts < queue[j].sig.ts
        /\ ExecutedAt(queue[d].sig, queue[d].exec) /\ ExecutedAt(queue[j].sig, queue[j].exec)
    BY <1>1, <1>2, <2>2, <2>5, OrderTyped DEF QueueOK, Schedules
  <2>7. queue[d].exec <= Now
    BY <1>1, <1>8, <2>6, ExecutedInOrder
  <2> QED
    BY <1>5, <2>3, <2>4, <2>7
\* A later signal executed by now would be executable by now.
<1>10. j = sigIdx
  <2>1. SUFFICES ASSUME j < sigIdx PROVE FALSE
    BY <1>2, <1>9
  <2>2. sigIdx \in 1..Len(queue) /\ sigIdx <= sigIdx
    BY <1>2, <2>1
  <2>3. queue[sigIdx].exec <= Now
    BY <1>1, <2>2 DEF WalkOK
  <2>4. PICK l \in 1..(cursor.sig - 1) : queue[sigIdx].sig = signals[l]
    BY <1>1, <2>2 DEF QueueOK, Schedules
  <2>5. l \in 1..Len(signals)
    BY <1>3
  <2>6. signals[k].ts < signals[l].ts
    BY <1>1, <1>7, <2>1, <2>2, <2>4 DEF QueueOK, Schedules
  <2>7. l > k
    <3>1. \A a, b \in 1..Len(signals) : a < b => signals[a].ts < signals[b].ts
      BY <1>1 DEF StreamsOK
    <3>2. signals[k].ts \in Int /\ signals[l].ts \in Int
      BY <1>1, <2>5, StreamFacts
    <3>3. l # k /\ ~(l < k)
      BY <2>5, <2>6, <3>1, <3>2
    <3> QED
      BY <2>5, <3>3
  <2>8. Matched(signals[l]) /\ ExecutedAt(signals[l], queue[sigIdx].exec)
    BY <1>1, <2>2, <2>4 DEF QueueOK, Schedules
  <2>9. queue[sigIdx].exec >= signals[l].ts + Interval
    BY <2>8 DEF ExecutedAt
  <2>10. queue[sigIdx].exec \in Int /\ signals[l].ts + Interval \in Int
    <3>1. queue[sigIdx].exec \in Int
      BY <1>2, <2>2, OrderTyped
    <3>2. signals[l].ts \in Int
      BY <1>1, <2>5, StreamFacts
    <3>3. Interval \in Int
      BY EngineAssumption
    <3> QED
      BY <3>1, <3>2, <3>3
  <2> QED
    BY <1>5, <2>3, <2>5, <2>7, <2>8, <2>9, <2>10
<1> QED
  BY <1>1, <1>2, <1>7, <1>8, <1>10 DEF BookOK

LEMMA OnePositionAtATime == EngineInv => PositionFollowsSignals
<1> SUFFICES ASSUME EngineInv PROVE PositionFollowsSignals
  OBVIOUS
<1>1. Fits(bars, book, Len(bars)) /\ book.trades \in Seq(Trade) /\ StreamsOK
  BY DEF EngineInv, BookOK, Fits, Book
<1>2. ASSUME NEW k \in 1..Len(book.trades) - 1
      PROVE  book.trades[k].exitTs <= book.trades[k + 1].entryTs
  <2>1. k \in 1..Len(book.trades) /\ k + 1 \in 1..Len(book.trades) /\ k < k + 1
    BY <1>1
  <2> QED
    BY <1>1, <2>1 DEF Fits
<1>3. ASSUME book.open # None, NEW tr \in Trades PROVE tr.exitTs <= book.open.entryTs
  BY <1>1, <1>3 DEF Fits, Trades, ToSet
<1>4. ToSet(stamps) = {stamps[i] : i \in 1..Len(stamps)} /\ DOMAIN signals = 1..Len(signals)
  BY <1>1, StampSet
<1>5. ToSet(stamps) \subseteq Nat
  <2>1. \A i \in 1..Len(stamps) : stamps[i] \in Nat
    BY <1>1, StreamFacts DEF Slots
  <2> QED
    BY <1>4, <2>1
<1>6. ASSUME NEW k \in DOMAIN signals, NEW later,
             later = {t \in ToSet(stamps) : t >= signals[k].ts + Interval},
             signals[k].ts \in ToSet(stamps), later # {}, bars # <<>>, Min(later) = Now, ~Due,
             \A j \in DOMAIN signals : j > k => signals[j].ts \notin ToSet(stamps)
               \/ Min(later) < signals[j].ts + Interval,
             result = <<>>
      PROVE  book.open # None /\ book.open.side = signals[k].side
  <2>1. later \in SUBSET Nat
    BY <1>5, <1>6
  <2>2. Min(later) \in later /\ \A t \in later : Min(later) <= t
    BY <1>6, <2>1, LeastNumber DEF Min
  <2>3. \A s : Matched(s) <=> s.ts \in ToSet(stamps)
    BY <1>4 DEF Matched
  <2>4. ExecutedAt(signals[k], Now)
    BY <1>4, <1>6, <2>2 DEF ExecutedAt
  <2>5. \A j \in 1..Len(signals) :
          j > k => ~Matched(signals[j]) \/ Now < signals[j].ts + Interval
    BY <1>4, <1>6, <2>3
  <2> QED
    BY <1>4, <1>6, <2>3, <2>4, <2>5, HeldAfterSignal
<1> QED
  BY <1>2, <1>3, <1>6 DEF PositionFollowsSignals

LEMMA WellTyped == EngineInv => TypeOK
<1> SUFFICES ASSUME EngineInv PROVE TypeOK
  OBVIOUS
<1>1. StreamsOK /\ WalkOK /\ Fits(bars, book, Len(bars)) /\ book \in Book
  BY DEF EngineInv, BookOK, Fits
<1>2. /\ \A k \in DOMAIN stamps : stamps[k] \in Slots
      /\ \A k \in DOMAIN signals : signals[k].ts \in Slots /\ signals[k].side \in Sides
  <2>1. DOMAIN stamps = 1..Len(stamps) /\ DOMAIN signals = 1..Len(signals)
    BY <1>1 DEF StreamsOK
  <2> QED
    BY <1>1, <2>1, StreamFacts
<1>3. ASSUME NEW p \in Positions PROVE p.side \in Sides /\ p.entryTs \in Walked /\ p.entry \in Nat
  BY PositionsEntered DEF Entered, Walked
<1>4. ASSUME NEW tr \in Trades
      PROVE  tr.reason \in {"target", "stop_loss", "time_exit", "signal_reversal", "end_of_data"}
  <2>1. book.trades \in Seq(Trade)
    BY <1>1 DEF Book
  <2>2. tr \in Trade
    <3> HIDE DEF Trade
    <3> QED
      BY <2>1 DEF Trades, ToSet
  <2> QED
    BY <2>2 DEF Trade, Reasons, Rules
<1> QED
  BY <1>1, <1>2, <1>3, <1>4 DEF TypeOK, WalkOK, Book

\* The state keeps its types: positions are entered on candles walked over, the
\* peak never falls below zero (the locals of RunBacktest).
THEOREM EngineTypeCorrect == Spec => []TypeOK
  BY EngineInvariant, WellTyped, PTL

\* No position is opened before the bar of its signal was complete, and none
\* later than on the first candle after that (scheduleSignals).
THEOREM EntriesUseNoLaterData == Spec => []NoLookAhead
  BY EngineInvariant, EnteredOnASignal, PTL

\* One position at a time, of the side of the last signal executed (the signal
\* loop of RunBacktest).
THEOREM PositionsFollowSignals == Spec => []PositionFollowsSignals
  BY EngineInvariant, OnePositionAtATime, PTL

\* No rule that fires is slept through, and a trade ended otherwise ended
\* without one (checkExitConditions before the signals of a candle).
THEOREM RulesAreNotSleptThrough == Spec => []ExitsAtFirstChance
  BY EngineInvariant, RulesNotSleptThrough, PTL

-----------------------------------------------------------------------------
(* Loops over the trades.                                                  *)

\* f carries a number through the steps of a loop, base before the first.
Loop(f, base, step, n) == f = [k \in 0..n |-> IF k = 0 THEN base ELSE step[k][f[k - 1]]]

LEMMA LoopExists ==
  ASSUME NEW n \in Nat, NEW base \in Int, NEW step \in [1..n -> [Int -> Int]]
  PROVE  \E f \in [0..n -> Int] : Loop(f, base, step, n)
<1> DEFINE Has(m) == \E f \in [0..m -> Int] : Loop(f, base, step, m)
           Without == {m \in 0..n : ~Has(m)}
<1>1. SUFFICES ASSUME ~Has(n) PROVE FALSE
  OBVIOUS
<1>2. PICK m \in Without : \A k \in Without : m <= k
  <2>1. Without \in SUBSET Nat
    OBVIOUS
  <2>2. n \in Without
    BY <1>1
  <2> HIDE DEF Without
  <2> QED
    BY <2>1, <2>2, LeastNumber
<1>3. CASE m = 0
  <2> DEFINE f == [k \in 0..0 |-> base]
  <2>1. f \in [0..0 -> Int]
    OBVIOUS
  <2>2. f = [k \in 0..0 |-> IF k = 0 THEN base ELSE step[k][f[k - 1]]]
    OBVIOUS
  <2> QED
    BY <1>2, <1>3, <2>1, <2>2 DEF Loop
<1>4. CASE m # 0
  <2> DEFINE l == m - 1
  <2>1. l \in Nat /\ l \in 0..n /\ l + 1 = m /\ m \in 1..n /\ ~(m <= l) /\ (l + 1) - 1 = l
    BY <1>2, <1>4
  <2>2. Has(l)
    BY <1>2, <2>1
  <2>3. PICK f \in [0..l -> Int] : Loop(f, base, step, l)
    BY <2>2
  <2> DEFINE top == step[m][f[l]]
             g == [k \in 0..m |-> IF k = m THEN top ELSE f[k]]
  <2> HIDE DEF l
  <2>4. top \in Int
    <3>1. f[l] \in Int /\ step[m] \in [Int -> Int]
      BY <2>1
    <3> QED
      BY <3>1
  <2> HIDE DEF top
  <2>5. \A k \in 0..m : (k \in 0..l /\ k # m) \/ k = m
    BY <2>1
  <2>6. g \in [0..m -> Int] /\ g[m] = top /\ \A k \in 0..l : g[k] = f[k]
    <3>1. \A k \in 0..m : (IF k = m THEN top ELSE f[k]) \in Int
      BY <2>4, <2>5
    <3>2. m \in 0..m /\ \A k \in 0..l : k \in 0..m /\ k # m
      BY <2>1
    <3> QED
      BY <3>1, <3>2
  <2>7. ASSUME NEW k \in 0..m
        PROVE  g[k] = IF k = 0 THEN base ELSE step[k][g[k - 1]]
    <3>1. CASE k = m
      <4>1. m - 1 = l /\ l \in 0..l
        BY <2>1
      <4> HIDE DEF g
      <4> QED
        BY <1>4, <2>6, <3>1, <4>1 DEF top
    <3>2. CASE k # m
      <4>1. k \in 0..l /\ (k # 0 => k - 1 \in 0..l)
        BY <2>1, <2>5, <3>2
      <4>2. f[k] = IF k = 0 THEN base ELSE step[k][f[k - 1]]
        BY <2>3, <4>1 DEF Loop
      <4> HIDE DEF g
      <4> QED
        BY <2>6, <4>1, <4>2
    <3> QED
      BY <3>1, <3>2
  <2>8. Loop(g, base, step, m)
    <3>1. g = [k \in 0..m |-> g[k]]
      OBVIOUS
    <3> HIDE DEF g
    <3> QED
      BY <2>7, <3>1 DEF Loop
  <2> QED
    BY <1>2, <2>6, <2>8
<1> QED
  BY <1>3, <1>4

\* Two functions are alike that begin alike and stay alike.
StayAlike(f, g, n) == f[0] = g[0] /\ \A k \in 1..n : f[k - 1] = g[k - 1] => f[k] = g[k]

LEMMA AlikeThroughout ==
  ASSUME NEW n \in Nat, NEW f, NEW g, StayAlike(f, g, n)
  PROVE  \A k \in 0..n : f[k] = g[k]
<1> DEFINE Differ == {k \in 0..n : f[k] # g[k]}
<1>1. SUFFICES ASSUME Differ # {} PROVE FALSE
  OBVIOUS
<1>2. PICK k \in Differ : \A j \in Differ : k <= j
  <2>1. Differ \in SUBSET Nat
    OBVIOUS
  <2> HIDE DEF Differ
  <2> QED
    BY <1>1, <2>1, LeastNumber
<1>3. k \in 1..n /\ k - 1 \in 0..n /\ ~(k <= k - 1)
  BY <1>2 DEF StayAlike
<1> QED
  BY <1>2, <1>3 DEF StayAlike

\* A property that holds at first and stays holds throughout.
LEMMA HoldsThroughout ==
  ASSUME NEW n \in Nat, NEW S, 0 \in S, \A k \in 1..n : k - 1 \in S => k \in S
  PROVE  \A k \in 0..n : k \in S
<1> DEFINE Out == {k \in 0..n : k \notin S}
<1>1. SUFFICES ASSUME Out # {} PROVE FALSE
  OBVIOUS
<1>2. PICK k \in Out : \A j \in Out : k <= j
  <2>1. Out \in SUBSET Nat
    OBVIOUS
  <2> HIDE DEF Out
  <2> QED
    BY <1>1, <2>1, LeastNumber
<1>3. k \in 1..n /\ k - 1 \in 0..n /\ ~(k <= k - 1)
  BY <1>2
<1> QED
  BY <1>2, <1>3

\* What each loop goes through.
LEMMA SumsRun ==
  ASSUME NEW base \in Int, NEW vals \in Seq(Int)
  PROVE  /\ Sums(base, vals) \in [0..Len(vals) -> Int]
         /\ Sums(base, vals)[0] = base
         /\ \A k \in 1..Len(vals) : Sums(base, vals)[k] = Sums(base, vals)[k - 1] + vals[k]
<1> DEFINE n == Len(vals)
           step == [k \in 1..n |-> [a \in Int |-> a + vals[k]]]
           Run(f) == f = [k \in 0..n |-> IF k = 0 THEN base ELSE f[k - 1] + vals[k]]
           g == CHOOSE f : Run(f)
<1>1. n \in Nat /\ step \in [1..n -> [Int -> Int]]
  OBVIOUS
<1>2. PICK f \in [0..n -> Int] : Loop(f, base, step, n)
  <2> HIDE DEF step, n
  <2> QED
    BY <1>1, LoopExists
<1>3. Run(f)
  <2>1. ASSUME NEW k \in 0..n
        PROVE  (IF k = 0 THEN base ELSE step[k][f[k - 1]]) = (IF k = 0 THEN base ELSE f[k - 1] + vals[k])
    <3>1. k # 0 => k \in 1..n /\ k - 1 \in 0..n
      OBVIOUS
    <3> QED
      BY <3>1
  <2> HIDE DEF step, n
  <2> QED
    BY <1>2, <2>1 DEF Loop
<1>4. Run(g)
  <2> HIDE DEF Run
  <2> QED
    BY <1>3
<1>5. Sums(base, vals) = g
  BY DEF Sums
<1> HIDE DEF g
<1>6. g[0] = base /\ \A k \in 1..n : g[k] = g[k - 1] + vals[k]
  <2>1. g[0] = base
    BY <1>1, <1>4
  <2>2. ASSUME NEW k \in 1..n PROVE g[k] = g[k - 1] + vals[k]
    <3>1. k \in 0..n /\ ~(k = 0)
      BY <1>1
    <3> QED
      BY <1>4, <3>1
  <2> QED
    BY <2>1, <2>2
<1>7. f[0] = base /\ \A k \in 1..n : f[k] = f[k - 1] + vals[k]
  <2>1. f[0] = base
    BY <1>1, <1>3
  <2>2. ASSUME NEW k \in 1..n PROVE f[k] = f[k - 1] + vals[k]
    <3>1. k \in 0..n /\ ~(k = 0)
      BY <1>1
    <3> QED
      BY <1>3, <3>1
  <2> QED
    BY <2>1, <2>2
<1>8. \A k \in 0..n : g[k] = f[k]
  <2>1. StayAlike(g, f, n)
    BY <1>6, <1>7 DEF StayAlike
  <2>2. n \in Nat
    BY <1>1
  <2> HIDE DEF n, step, Run
  <2> QED
    BY <2>1, <2>2, AlikeThroughout
<1>9. g = f
  BY <1>4, <1>8
<1> QED
  BY <1>5, <1>6, <1>9

LEMMA PeaksRun ==
  ASSUME NEW base \in Int, NEW vals \in Seq(Int)
  PROVE  /\ Peaks(base, vals) \in [0..Len(vals) -> Int]
         /\ Peaks(base, vals)[0] = base
         /\ \A k \in 1..Len(vals) : Peaks(base, vals)[k] = Max({Peaks(base, vals)[k - 1], vals[k]})
<1> DEFINE n == Len(vals)
           step == [k \in 1..n |-> [a \in Int |-> Max({a, vals[k]})]]
           Run(f) == f = [k \in 0..n |-> IF k = 0 THEN base ELSE Max({f[k - 1], vals[k]})]
           g == CHOOSE f : Run(f)
<1>1. n \in Nat /\ step \in [1..n -> [Int -> Int]]
  <2>1. \A k \in 1..n : \A a \in Int : Max({a, vals[k]}) \in Int
    <3>1. \A k \in 1..n : vals[k] \in Int
      OBVIOUS
    <3> QED
      BY <3>1, MaxOfTwo
  <2> QED
    BY <2>1
<1>2. PICK f \in [0..n -> Int] : Loop(f, base, step, n)
  <2> HIDE DEF step, n
  <2> QED
    BY <1>1, LoopExists
<1>3. Run(f)
  <2>1. ASSUME NEW k \in 0..n
        PROVE  (IF k = 0 THEN base ELSE step[k][f[k - 1]]) = (IF k = 0 THEN base ELSE Max({f[k - 1], vals[k]}))
    <3>1. k # 0 => k \in 1..n /\ k - 1 \in 0..n
      OBVIOUS
    <3> QED
      BY <3>1
  <2> HIDE DEF step, n
  <2> QED
    BY <1>2, <2>1 DEF Loop
<1>4. Run(g)
  <2> HIDE DEF Run
  <2> QED
    BY <1>3
<1>5. Peaks(base, vals) = g
  BY DEF Peaks
<1> HIDE DEF g
<1>6. g[0] = base /\ \A k \in 1..n : g[k] = Max({g[k - 1], vals[k]})
  <2>1. g[0] = base
    BY <1>1, <1>4
  <2>2. ASSUME NEW k \in 1..n PROVE g[k] = Max({g[k - 1], vals[k]})
    <3>1. k \in 0..n /\ ~(k = 0)
      BY <1>1
    <3> QED
      BY <1>4, <3>1
  <2> QED
    BY <2>1, <2>2
<1>7. f[0] = base /\ \A k \in 1..n : f[k] = Max({f[k - 1], vals[k]})
  <2>1. f[0] = base
    BY <1>1, <1>3
  <2>2. ASSUME NEW k \in 1..n PROVE f[k] = Max({f[k - 1], vals[k]})
    <3>1. k \in 0..n /\ ~(k = 0)
      BY <1>1
    <3> QED
      BY <1>3, <3>1
  <2> QED
    BY <2>1, <2>2
<1>8. \A k \in 0..n : g[k] = f[k]
  <2>1. StayAlike(g, f, n)
    BY <1>6, <1>7 DEF StayAlike
  <2>2. n \in Nat
    BY <1>1
  <2> HIDE DEF n, step, Run
  <2> QED
    BY <2>1, <2>2, AlikeThroughout
<1>9. g = f
  BY <1>4, <1>8
<1> QED
  BY <1>5, <1>6, <1>9

LEMMA StreakRun ==
  ASSUME NEW flags \in Seq(BOOLEAN)
  PROVE  /\ Streak(flags) \in [0..Len(flags) -> Int]
         /\ Streak(flags)[0] = 0
         /\ \A k \in 1..Len(flags) : Streak(flags)[k] = IF flags[k] THEN Streak(flags)[k - 1] + 1 ELSE 0
<1> DEFINE n == Len(flags)
           step == [k \in 1..n |-> [a \in Int |-> IF flags[k] THEN a + 1 ELSE 0]]
           Run(f) == f = [k \in 0..n |-> IF k = 0 \/ ~flags[k] THEN 0 ELSE f[k - 1] + 1]
           g == CHOOSE f : Run(f)
<1>1. n \in Nat /\ step \in [1..n -> [Int -> Int]]
  OBVIOUS
<1>2. PICK f \in [0..n -> Int] : Loop(f, 0, step, n)
  <2>1. 0 \in Int
    OBVIOUS
  <2> HIDE DEF step, n
  <2> QED
    BY <1>1, <2>1, LoopExists
<1>3. Run(f)
  <2>1. ASSUME NEW k \in 0..n
        PROVE  (IF k = 0 THEN 0 ELSE step[k][f[k - 1]]) = (IF k = 0 \/ ~flags[k] THEN 0 ELSE f[k - 1] + 1)
    <3>1. k # 0 => k \in 1..n /\ k - 1 \in 0..n
      OBVIOUS
    <3> QED
      BY <3>1
  <2> HIDE DEF step, n
  <2> QED
    BY <1>2, <2>1 DEF Loop
<1>4. Run(g)
  <2> HIDE DEF Run
  <2> QED
    BY <1>3
<1>5. Streak(flags) = g
  BY DEF Streak
<1> HIDE DEF g
<1>6. g[0] = 0 /\ \A k \in 1..n : g[k] = IF flags[k] THEN g[k - 1] + 1 ELSE 0
  <2>1. g[0] = 0
    BY <1>1, <1>4
  <2>2. ASSUME NEW k \in 1..n PROVE g[k] = IF flags[k] THEN g[k - 1] + 1 ELSE 0
    <3>1. k \in 0..n /\ ~(k = 0)
      BY <1>1
    <3> QED
      BY <1>4, <3>1
  <2> QED
    BY <2>1, <2>2
<1>7. f[0] = 0 /\ \A k \in 1..n : f[k] = IF flags[k] THEN f[k - 1] + 1 ELSE 0
  <2>1. f[0] = 0
    BY <1>1, <1>3
  <2>2. ASSUME NEW k \in 1..n PROVE f[k] = IF flags[k] THEN f[k - 1] + 1 ELSE 0
    <3>1. k \in 0..n /\ ~(k = 0)
      BY <1>1
    <3> QED
      BY <1>3, <3>1
  <2> QED
    BY <2>1, <2>2
<1>8. \A k \in 0..n : g[k] = f[k]
  <2>1. StayAlike(g, f, n)
    BY <1>6, <1>7 DEF StayAlike
  <2>2. n \in Nat
    BY <1>1
  <2> HIDE DEF n, step, Run
  <2> QED
    BY <2>1, <2>2, AlikeThroughout
<1>9. g = f
  BY <1>4, <1>8
<1> QED
  BY <1>5, <1>6, <1>9

\* Sums of sums.
LEMMA SumsAdd ==
  ASSUME NEW a \in Seq(Int), NEW b \in Seq(Int), NEW c \in Seq(Int),
         Len(b) = Len(a), Len(c) = Len(a), \A k \in 1..Len(a) : c[k] = a[k] + b[k]
  PROVE  Total(c) = Total(a) + Total(b)
<1> DEFINE n == Len(a)
           f == Sums(0, c)
           p == Sums(0, a)
           q == Sums(0, b)
           g == [k \in 0..n |-> p[k] + q[k]]
<1>1. n \in Nat /\ 0 \in Int
  OBVIOUS
<1>2. /\ f \in [0..n -> Int] /\ f[0] = 0 /\ \A k \in 1..n : f[k] = f[k - 1] + c[k]
      /\ p \in [0..n -> Int] /\ p[0] = 0 /\ \A k \in 1..n : p[k] = p[k - 1] + a[k]
      /\ q \in [0..n -> Int] /\ q[0] = 0 /\ \A k \in 1..n : q[k] = q[k - 1] + b[k]
  <2>1. f \in [0..n -> Int] /\ f[0] = 0 /\ \A k \in 1..n : f[k] = f[k - 1] + c[k]
    BY <1>1, SumsRun
  <2>2. p \in [0..n -> Int] /\ p[0] = 0 /\ \A k \in 1..n : p[k] = p[k - 1] + a[k]
    BY <1>1, SumsRun
  <2>3. q \in [0..n -> Int] /\ q[0] = 0 /\ \A k \in 1..n : q[k] = q[k - 1] + b[k]
    BY <1>1, SumsRun
  <2> HIDE DEF f, p, q, n
  <2> QED
    BY <2>1, <2>2, <2>3
<1>3. \A k \in 1..n : a[k] \in Int /\ b[k] \in Int /\ c[k] = a[k] + b[k]
  OBVIOUS
<1> HIDE DEF n, f, p, q
<1>4. ASSUME NEW k \in 1..n, f[k - 1] = g[k - 1] PROVE f[k] = g[k]
  <2>1. k \in 0..n /\ k - 1 \in 0..n
    BY <1>1
  <2> DEFINE x == p[k - 1]
             y == q[k - 1]
             v == a[k]
             w == b[k]
  <2>2. x \in Int /\ y \in Int /\ v \in Int /\ w \in Int
    BY <1>2, <1>3, <2>1
  <2>3. f[k] = (x + y) + (v + w) /\ g[k] = (x + v) + (y + w)
    BY <1>2, <1>3, <1>4, <2>1
  <2> HIDE DEF x, y, v, w
  <2> QED
    BY <2>2, <2>3
<1>5. f[0] = g[0]
  BY <1>1, <1>2
<1> HIDE DEF g
<1>6. \A k \in 0..n : f[k] = g[k]
  <2>1. n \in Nat
    BY <1>1
  <2>2. StayAlike(f, g, n)
    BY <1>4, <1>5 DEF StayAlike
  <2> QED
    BY <2>1, <2>2, AlikeThroughout
<1>7. f[n] = p[n] + q[n]
  BY <1>1, <1>6 DEF g
<1> QED
  BY <1>7 DEF f, p, q, n, Total

LEMMA SumsShift ==
  ASSUME NEW base \in Int, NEW vals \in Seq(Int)
  PROVE  Total(vals) \in Int /\ Sums(base, vals)[Len(vals)] = base + Total(vals)
<1> DEFINE n == Len(vals)
           f == Sums(base, vals)
           p == Sums(0, vals)
           g == [k \in 0..n |-> base + p[k]]
<1>1. n \in Nat /\ 0 \in Int /\ \A k \in 1..n : vals[k] \in Int
  OBVIOUS
<1>2. /\ f \in [0..n -> Int] /\ f[0] = base /\ \A k \in 1..n : f[k] = f[k - 1] + vals[k]
      /\ p \in [0..n -> Int] /\ p[0] = 0 /\ \A k \in 1..n : p[k] = p[k - 1] + vals[k]
  BY <1>1, SumsRun
<1> HIDE DEF n, f, p
<1>3. ASSUME NEW k \in 1..n, f[k - 1] = g[k - 1] PROVE f[k] = g[k]
  <2>1. k \in 0..n /\ k - 1 \in 0..n
    BY <1>1
  <2> DEFINE x == p[k - 1]
             v == vals[k]
  <2>2. x \in Int /\ v \in Int
    BY <1>1, <1>2, <2>1
  <2>3. f[k] = (base + x) + v /\ g[k] = base + (x + v)
    BY <1>2, <1>3, <2>1
  <2> HIDE DEF x, v
  <2> QED
    BY <2>2, <2>3
<1>4. f[0] = g[0]
  BY <1>1, <1>2
<1> HIDE DEF g
<1>5. \A k \in 0..n : f[k] = g[k]
  <2>1. n \in Nat
    BY <1>1
  <2>2. StayAlike(f, g, n)
    BY <1>3, <1>4 DEF StayAlike
  <2> QED
    BY <2>1, <2>2, AlikeThroughout
<1>6. f[n] = base + p[n] /\ p[n] \in Int
  BY <1>1, <1>2, <1>5 DEF g
<1> QED
  BY <1>6 DEF f, p, n, Total

\* The greatest value met is one of those met.
LEMMA PeaksBound ==
  ASSUME NEW base \in Int, NEW vals \in Seq(Int)
  PROVE  LET pk == Peaks(base, vals)
             n == Len(vals)
         IN  \A k \in 0..n :
               /\ pk[k] \in Int /\ pk[k] >= base
               /\ \A j \in 1..k : pk[k] >= vals[j]
               /\ pk[k] = base \/ \E j \in 1..k : pk[k] = vals[j]
<1> DEFINE n == Len(vals)
           pk == Peaks(base, vals)
           Good(k) == /\ pk[k] \in Int /\ pk[k] >= base
                      /\ \A j \in 1..k : pk[k] >= vals[j]
                      /\ pk[k] = base \/ \E j \in 1..k : pk[k] = vals[j]
           S == {k \in 0..n : Good(k)}
<1>1. n \in Nat /\ \A k \in 1..n : vals[k] \in Int
  OBVIOUS
<1>2. pk[0] = base /\ \A k \in 1..n : pk[k] = Max({pk[k - 1], vals[k]})
  BY PeaksRun
<1> HIDE DEF n, pk
<1>3. 0 \in S
  BY <1>1, <1>2
<1>4. ASSUME NEW k \in 1..n, k - 1 \in S PROVE k \in S
  <2>1. Good(k - 1) /\ k \in 0..n /\ k \in 1..k
    BY <1>1, <1>4
  <2> DEFINE a == pk[k - 1]
             b == vals[k]
             m == pk[k]
  <2>2. a \in Int /\ b \in Int /\ m = Max({a, b})
    BY <1>1, <1>2, <2>1
  <2>3. m \in {a, b} /\ m >= a /\ m >= b
    <3> HIDE DEF a, b, m
    <3> QED
      BY <2>2, MaxOfTwo
  <2>4. m \in Int /\ m >= base
    BY <2>1, <2>2, <2>3
  <2>5. ASSUME NEW j \in 1..k PROVE m >= vals[j]
    <3>1. j \in 1..(k - 1) \/ j = k
      OBVIOUS
    <3>2. CASE j \in 1..(k - 1)
      <4>1. a >= vals[j] /\ vals[j] \in Int
        BY <1>1, <2>1, <3>2
      <4> HIDE DEF a, b, m
      <4> QED
        BY <2>2, <2>3, <2>4, <4>1
    <3>3. CASE j = k
      BY <2>3, <3>3
    <3> QED
      BY <3>1, <3>2, <3>3
  <2>6. m = base \/ \E j \in 1..k : m = vals[j]
    <3>1. \A j \in 1..(k - 1) : j \in 1..k
      OBVIOUS
    <3> QED
      BY <2>1, <2>3, <3>1
  <2> QED
    BY <2>1, <2>4, <2>5, <2>6
<1> HIDE DEF Good
<1>5. \A k \in 0..n : k \in S
  <2> HIDE DEF S
  <2> QED
    BY <1>1, <1>3, <1>4, HoldsThroughout
<1> QED
  BY <1>5 DEF Good, n, pk

\* A streak is a run of flagged trades, and no run is longer.
LEMMA StreakIsARun ==
  ASSUME NEW flags \in Seq(BOOLEAN)
  PROVE  LET st == Streak(flags)
         IN  \A k \in 0..Len(flags) :
               st[k] \in 0..k /\ \A j \in (k - st[k] + 1)..k : flags[j]
<1> DEFINE n == Len(flags)
           st == Streak(flags)
           Good(k) == st[k] \in 0..k /\ \A j \in (k - st[k] + 1)..k : flags[j]
           S == {k \in 0..n : Good(k)}
<1>1. n \in Nat
  OBVIOUS
<1>2. st[0] = 0 /\ \A k \in 1..n : st[k] = IF flags[k] THEN st[k - 1] + 1 ELSE 0
  BY StreakRun
<1> HIDE DEF n, st
<1>3. 0 \in S
  BY <1>1, <1>2
<1>4. ASSUME NEW k \in 1..n, k - 1 \in S PROVE k \in S
  <2>1. Good(k - 1) /\ k \in 0..n
    BY <1>1, <1>4
  <2> DEFINE c == st[k - 1]
  <2>2. c \in 0..(k - 1) /\ \A j \in ((k - 1) - c + 1)..(k - 1) : flags[j]
    BY <2>1
  <2> HIDE DEF c
  <2>3. CASE flags[k]
    <3>1. st[k] = c + 1
      BY <1>2, <2>3 DEF c
    <3>2. c + 1 \in 0..k
      BY <2>2
    <3>3. \A j \in (k - (c + 1) + 1)..k : j \in ((k - 1) - c + 1)..(k - 1) \/ j = k
      BY <2>2
    <3>4. \A j \in (k - (c + 1) + 1)..k : flags[j]
      BY <2>2, <2>3, <3>3
    <3> QED
      BY <2>1, <3>1, <3>2, <3>4
  <2>4. CASE ~flags[k]
    <3>1. st[k] = 0
      BY <1>2, <2>4
    <3>2. (k - 0 + 1)..k = {} /\ 0 \in 0..k
      OBVIOUS
    <3> QED
      BY <2>1, <3>1, <3>2
  <2> QED
    BY <2>3, <2>4
<1> HIDE DEF Good
<1>5. \A k \in 0..n : k \in S
  <2> HIDE DEF S
  <2> QED
    BY <1>1, <1>3, <1>4, HoldsThroughout
<1> QED
  BY <1>5 DEF Good, n, st

LEMMA StreakCovers ==
  ASSUME NEW flags \in Seq(BOOLEAN)
  PROVE  LET st == Streak(flags)
         IN  \A k \in 0..Len(flags) : \A i \in 1..k :
               (\A j \in i..k : flags[j]) => st[k] >= k - i + 1
<1> DEFINE n == Len(flags)
           st == Streak(flags)
           Good(k) == \A i \in 1..k : (\A j \in i..k : flags[j]) => st[k] >= k - i + 1
           S == {k \in 0..n : Good(k)}
<1>1. n \in Nat
  OBVIOUS
<1>2. /\ st \in [0..n -> Int]
      /\ \A k \in 1..n : st[k] = IF flags[k] THEN st[k - 1] + 1 ELSE 0
      /\ \A k \in 0..n : st[k] \in 0..k
  BY StreakRun, StreakIsARun
<1> HIDE DEF n, st
<1>3. 0 \in S
  BY <1>1
<1>4. ASSUME NEW k \in 1..n, k - 1 \in S PROVE k \in S
  <2>1. Good(k - 1) /\ k \in 0..n /\ k - 1 \in 0..n
    BY <1>1, <1>4
  <2> DEFINE c == st[k - 1]
  <2>2. c \in Nat
    BY <1>2, <2>1
  <2>3. ASSUME NEW i \in 1..k, \A j \in i..k : flags[j] PROVE st[k] >= k - i + 1
    <3>1. k \in i..k
      OBVIOUS
    <3>2. st[k] = c + 1
      BY <1>2, <2>3, <3>1
    <3>3. CASE i = k
      <4> HIDE DEF c
      <4> QED
        BY <2>2, <3>2, <3>3
    <3>4. CASE i # k
      <4>1. i \in 1..(k - 1) /\ \A j \in i..(k - 1) : j \in i..k
        BY <3>4
      <4>2. c >= (k - 1) - i + 1
        BY <2>1, <2>3, <4>1
      <4> HIDE DEF c
      <4> QED
        BY <2>2, <3>2, <4>2
    <3> QED
      BY <3>3, <3>4
  <2> QED
    BY <2>1, <2>3
<1> HIDE DEF Good
<1>5. \A k \in 0..n : k \in S
  <2> HIDE DEF S
  <2> QED
    BY <1>1, <1>3, <1>4, HoldsThroughout
<1> QED
  BY <1>5 DEF Good, n, st

\* The lengths of the runs of flagged trades.
Runs(flags) ==
  {r \in (1..Len(flags)) \X (1..Len(flags)) : r[1] <= r[2] /\ \A k \in r[1]..r[2] : flags[k]}
Lengths(flags) == {r[2] - r[1] + 1 : r \in Runs(flags)} \cup {0}

LEMMA LongestIsLongest ==
  ASSUME NEW flags \in Seq(BOOLEAN)
  PROVE  LongestStreak(flags) = Max(Lengths(flags))
<1> DEFINE n == Len(flags)
           st == Streak(flags)
           row == [k \in DOMAIN flags |-> st[k]]
           pk == Peaks(0, row)
<1>1. n \in Nat /\ n \in 0..n /\ 0 \in Int /\ DOMAIN flags = 1..n
  OBVIOUS
<1>2. st \in [0..n -> Int] /\ \A k \in 1..n : k \in 0..n
  BY StreakRun
<1>3. row \in Seq(Int) /\ Len(row) = n /\ \A k \in 1..n : row[k] = st[k]
  <2> HIDE DEF st, n
  <2>1. \A k \in 1..n : st[k] \in Int
    BY <1>2
  <2> QED
    BY <1>1, <2>1
<1> DEFINE m == pk[n]
<1>4. LongestStreak(flags) = m
  BY DEF LongestStreak
<1> HIDE DEF row
<1>5. /\ m \in Int /\ m >= 0
      /\ \A j \in 1..n : m >= row[j]
      /\ m = 0 \/ \E j \in 1..n : m = row[j]
  BY <1>1, <1>3, PeaksBound
<1>6. /\ \A k \in 0..n : st[k] \in 0..k /\ \A j \in (k - st[k] + 1)..k : flags[j]
      /\ \A k \in 0..n : \A i \in 1..k : (\A j \in i..k : flags[j]) => st[k] >= k - i + 1
  BY StreakIsARun, StreakCovers
<1>7. Runs(flags) = {r \in (1..n) \X (1..n) : r[1] <= r[2] /\ \A k \in r[1]..r[2] : flags[k]}
  BY DEF Runs
<1> HIDE DEF n, st, pk, m
<1>8. ASSUME NEW r \in Runs(flags) PROVE m >= r[2] - r[1] + 1
  <2>1. r[1] \in 1..n /\ r[2] \in 1..n /\ r[1] <= r[2] /\ \A k \in r[1]..r[2] : flags[k]
    BY <1>7
  <2>2. r[2] \in 0..n /\ r[1] \in 1..r[2]
    BY <1>1, <2>1
  <2>3. st[r[2]] >= r[2] - r[1] + 1 /\ st[r[2]] \in Int
    BY <1>2, <1>6, <2>1, <2>2
  <2>4. m >= st[r[2]]
    BY <1>3, <1>5, <2>1
  <2> QED
    BY <1>5, <2>1, <2>3, <2>4
<1>9. m \in Lengths(flags)
  <2>1. CASE m = 0
    BY <2>1 DEF Lengths
  <2>2. CASE m # 0
    <3>1. PICK j \in 1..n : m = st[j]
      BY <1>3, <1>5, <2>2
    <3>2. j \in 0..n /\ m \in 0..j /\ \A i \in (j - m + 1)..j : flags[i]
      BY <1>1, <1>6, <3>1
    <3> DEFINE i == j - m + 1
    <3>3. i \in 1..n /\ i <= j /\ (j - i) + 1 = m
      BY <1>1, <2>2, <3>1, <3>2
    <3>4. <<i, j>> \in Runs(flags)
      BY <1>7, <3>2, <3>3
    <3> HIDE DEF i
    <3>5. <<i, j>>[2] - <<i, j>>[1] + 1 = m
      BY <3>3
    <3> QED
      BY <3>4, <3>5 DEF Lengths
  <2> QED
    BY <2>1, <2>2
<1>10. \A y \in Lengths(flags) : m >= y /\ y \in Int
  <2>1. ASSUME NEW y \in Lengths(flags) PROVE m >= y /\ y \in Int
    <3>1. CASE y = 0
      BY <1>5, <3>1
    <3>2. CASE y # 0
      <4>1. PICK r \in Runs(flags) : y = r[2] - r[1] + 1
        BY <3>2 DEF Lengths
      <4>2. r[1] \in 1..n /\ r[2] \in 1..n
        BY <1>7
      <4> QED
        BY <1>8, <4>1, <4>2
    <3> QED
      BY <3>1, <3>2
  <2> QED
    BY <2>1
<1>11. Max(Lengths(flags)) = m
  <2> DEFINE M == Max(Lengths(flags))
  <2>1. M \in Lengths(flags) /\ \A y \in Lengths(flags) : M >= y
    BY <1>9, <1>10 DEF Max
  <2>2. M >= m /\ m >= M /\ M \in Int
    BY <1>9, <1>10, <2>1
  <2>3. M = m
    <3> HIDE DEF M
    <3> QED
      BY <1>5, <2>2
  <2> QED
    BY <2>3
<1> QED
  BY <1>4, <1>11

-----------------------------------------------------------------------------
(* The account: equity, peak and worst drawdown.                           *)

\* The columns the loops run over.
LEMMA ColumnTyped ==
  ASSUME NEW trs \in Seq(Trade), NEW f, \A tr \in Trade : tr[f] \in Int
  PROVE  /\ Column(trs, f) \in Seq(Int) /\ Len(Column(trs, f)) = Len(trs)
         /\ \A k \in 1..Len(trs) : Column(trs, f)[k] = trs[k][f] /\ trs[k][f] \in Int
<1> DEFINE n == Len(trs)
           col == [k \in 1..n |-> trs[k][f]]
<1>1. n \in Nat /\ DOMAIN trs = 1..n /\ \A k \in 1..n : trs[k] \in Trade
  OBVIOUS
<1>2. Column(trs, f) = col
  BY <1>1 DEF Column
<1> HIDE DEF n
<1>3. col \in Seq(Int) /\ Len(col) = n
  BY <1>1
<1> QED
  BY <1>1, <1>2, <1>3 DEF n

Equity(trs) == Sums(Capital, Column(trs, "net"))
EquitySeq(trs) == [k \in DOMAIN trs |-> Equity(trs)[k]]
Peak(trs) == Peaks(Capital, EquitySeq(trs))
Depth(trs, k) == <<Peak(trs)[k] - Equity(trs)[k], Peak(trs)[k]>>

\* The account agrees with the trades recorded so far.
Account(bk) ==
  LET n == Len(bk.trades)
  IN  /\ bk.equity = Equity(bk.trades)[n]
      /\ bk.peak = Peak(bk.trades)[n]
      /\ bk.maxdd[2] > 0
      /\ \A k \in 0..n : ~Above(Depth(bk.trades, k), bk.maxdd)
      /\ \E k \in 0..n : ~Above(bk.maxdd, Depth(bk.trades, k))
      /\ \A k \in 1..n : LET tr == bk.trades[k]
                         IN  tr.net = tr.gross - tr.charges - tr.slippage

LEMMA NetTyped == \A tr \in Trade : tr["net"] \in Int
  BY DEF Trade

\* Equity and peak after each trade.
LEMMA AccountRuns ==
  ASSUME NEW trs \in Seq(Trade)
  PROVE  LET n == Len(trs)
             eq == Equity(trs)
             pk == Peak(trs)
         IN  /\ eq[0] = Capital /\ \A k \in 1..n : eq[k] = eq[k - 1] + trs[k].net
             /\ pk[0] = Capital /\ \A k \in 1..n : pk[k] = Max({pk[k - 1], eq[k]})
             /\ \A k \in 0..n : eq[k] \in Int /\ pk[k] \in Int /\ pk[k] > 0
<1> DEFINE n == Len(trs)
           nets == Column(trs, "net")
           eq == Equity(trs)
           row == EquitySeq(trs)
           pk == Peak(trs)
<1>1. n \in Nat /\ DOMAIN trs = 1..n /\ Capital \in Int /\ Capital > 0
  BY EngineAssumption
<1>2. nets \in Seq(Int) /\ Len(nets) = n /\ \A k \in 1..n : nets[k] = trs[k].net
  BY NetTyped, ColumnTyped
<1>3. /\ eq \in [0..n -> Int] /\ eq[0] = Capital
      /\ \A k \in 1..n : eq[k] = eq[k - 1] + trs[k].net
  <2>1. eq = Sums(Capital, nets)
    BY DEF Equity
  <2> HIDE DEF nets, n, eq
  <2>2. /\ eq \in [0..n -> Int] /\ eq[0] = Capital
        /\ \A k \in 1..n : eq[k] = eq[k - 1] + nets[k]
    BY <1>1, <1>2, <2>1, SumsRun
  <2>3. \A k \in 1..n : eq[k] = eq[k - 1] + trs[k].net
    BY <1>2, <2>2
  <2> QED
    BY <2>2, <2>3
<1> HIDE DEF eq, nets, n
<1>4. row = [k \in 1..n |-> eq[k]]
  BY <1>1 DEF EquitySeq, eq
<1>5. row \in Seq(Int) /\ Len(row) = n /\ \A k \in 1..n : row[k] = eq[k]
  <2>1. \A k \in 1..n : k \in 0..n
    BY <1>1
  <2>2. \A k \in 1..n : eq[k] \in Int
    BY <1>3, <2>1
  <2> HIDE DEF row
  <2> QED
    BY <1>1, <1>4, <2>2
<1> HIDE DEF row
<1>6. pk = Peaks(Capital, row)
  BY DEF Peak, row
<1> HIDE DEF pk
<1>7. pk[0] = Capital /\ \A k \in 1..n : pk[k] = Max({pk[k - 1], eq[k]})
  <2>1. pk[0] = Capital /\ \A k \in 1..n : pk[k] = Max({pk[k - 1], row[k]})
    BY <1>1, <1>5, <1>6, PeaksRun
  <2>2. ASSUME NEW k \in 1..n PROVE pk[k] = Max({pk[k - 1], eq[k]})
    BY <1>5, <2>1
  <2> QED
    BY <2>1, <2>2
<1>8. \A k \in 0..n : pk[k] \in Int /\ pk[k] >= Capital
  BY <1>1, <1>5, <1>6, PeaksBound
<1>9. \A k \in 0..n : eq[k] \in Int /\ pk[k] \in Int /\ pk[k] > 0
  BY <1>1, <1>3, <1>8
<1> QED
  BY <1>3, <1>7, <1>9 DEF n, eq, pk

\* Another trade leaves the history as it was.
LEMMA HistoryKept ==
  ASSUME NEW trs \in Seq(Trade), NEW tr \in Trade, NEW more, more = Append(trs, tr)
  PROVE  \A k \in 0..Len(trs) : /\ Equity(more)[k] = Equity(trs)[k]
                                /\ Peak(more)[k] = Peak(trs)[k]
                                /\ Depth(more, k) = Depth(trs, k)
<1> DEFINE n == Len(trs)
           f == Equity(more)
           g == Equity(trs)
           p == Peak(more)
           q == Peak(trs)
<1>1. /\ more \in Seq(Trade) /\ Len(more) = n + 1 /\ n \in Nat
      /\ \A k \in 1..n : more[k] = trs[k] /\ k \in 1..(n + 1)
  BY AppendProperties
<1>2. /\ g[0] = Capital /\ \A k \in 1..n : g[k] = g[k - 1] + trs[k].net
      /\ q[0] = Capital /\ \A k \in 1..n : q[k] = Max({q[k - 1], g[k]})
  BY AccountRuns
<1>3. /\ f[0] = Capital /\ \A k \in 1..n : f[k] = f[k - 1] + trs[k].net
      /\ p[0] = Capital /\ \A k \in 1..n : p[k] = Max({p[k - 1], f[k]})
  <2>1. /\ f[0] = Capital /\ \A k \in 1..(n + 1) : f[k] = f[k - 1] + more[k].net
        /\ p[0] = Capital /\ \A k \in 1..(n + 1) : p[k] = Max({p[k - 1], f[k]})
    BY <1>1, AccountRuns
  <2> HIDE DEF n, f, p
  <2>2. \A k \in 1..n : f[k] = f[k - 1] + trs[k].net
    BY <1>1, <2>1
  <2>3. \A k \in 1..n : p[k] = Max({p[k - 1], f[k]})
    BY <1>1, <2>1
  <2> QED
    BY <2>1, <2>2, <2>3
<1> HIDE DEF n, f, g, p, q
<1>4. n \in Nat
  BY <1>1
<1>5. \A k \in 0..n : f[k] = g[k]
  <2>1. StayAlike(f, g, n)
    BY <1>2, <1>3 DEF StayAlike
  <2> QED
    BY <1>4, <2>1, AlikeThroughout
<1>6. \A k \in 0..n : p[k] = q[k]
  <2>1. \A k \in 1..n : k \in 0..n
    BY <1>4
  <2>2. \A k \in 1..n : p[k - 1] = q[k - 1] => p[k] = q[k]
    BY <1>2, <1>3, <1>5, <2>1
  <2>3. StayAlike(p, q, n)
    BY <1>2, <1>3, <2>2 DEF StayAlike
  <2> QED
    BY <1>4, <2>3, AlikeThroughout
<1> QED
  BY <1>5, <1>6 DEF n, f, g, p, q, Depth

\* Comparing fractions.
LEMMA Scaled ==
  ASSUME NEW a \in Int, NEW b \in Int, NEW p \in Int, p > 0
  PROVE  a <= b <=> a * p <= b * p
<1>1. a <= b => a * p <= b * p
  OBVIOUS
<1>2. a > b => a * p > b * p
  OBVIOUS
<1> QED
  BY <1>1, <1>2

LEMMA NotAboveTransitive ==
  ASSUME NEW x \in Int \X Int, NEW y \in Int \X Int, NEW z \in Int \X Int,
         x[2] > 0, y[2] > 0, z[2] > 0, ~Above(x, y), ~Above(y, z)
  PROVE  ~Above(x, z)
<1> DEFINE a == x[1]
           b == x[2]
           c == y[1]
           d == y[2]
           e == z[1]
           f == z[2]
<1>1. /\ a \in Int /\ b \in Int /\ c \in Int /\ d \in Int /\ e \in Int /\ f \in Int
      /\ b > 0 /\ d > 0 /\ f > 0
  OBVIOUS
<1>2. a * d <= c * b /\ c * f <= e * d
  BY <1>1 DEF Above
<1> HIDE DEF a, b, c, d, e, f
<1>3. (a * d) * f <= (c * b) * f
  <2> DEFINE s == a * d
             t == c * b
  <2>1. s \in Int /\ t \in Int /\ s <= t
    BY <1>1, <1>2
  <2> HIDE DEF s, t
  <2>2. s * f <= t * f
    BY <1>1, <2>1, Scaled
  <2> QED
    BY <2>2 DEF s, t
<1>4. (c * f) * b <= (e * d) * b
  <2> DEFINE s == c * f
             t == e * d
  <2>1. s \in Int /\ t \in Int /\ s <= t
    BY <1>1, <1>2
  <2> HIDE DEF s, t
  <2>2. s * b <= t * b
    BY <1>1, <2>1, Scaled
  <2> QED
    BY <2>2 DEF s, t
<1>5. (c * b) * f = (c * f) * b /\ (a * d) * f = (a * f) * d /\ (e * d) * b = (e * b) * d
  BY <1>1
<1>6. a * f <= e * b
  <2> DEFINE s == a * f
             t == e * b
  <2>1. s \in Int /\ t \in Int
    BY <1>1
  <2>2. s * d <= t * d
    <3> DEFINE u == (a * d) * f
               v == (c * b) * f
               w == (e * d) * b
    <3>1. u \in Int /\ v \in Int /\ w \in Int
      BY <1>1
    <3>2. u <= v /\ v <= w /\ s * d = u /\ t * d = w
      BY <1>3, <1>4, <1>5
    <3> HIDE DEF u, v, w
    <3> QED
      BY <3>1, <3>2
  <2> HIDE DEF s, t
  <2>3. s <= t
    BY <1>1, <2>1, <2>2, Scaled
  <2> QED
    BY <2>3 DEF s, t
<1> QED
  BY <1>1, <1>6 DEF Above, a, b, e, f

LEMMA LargerOfTwo ==
  ASSUME NEW x \in Int \X Int, NEW y \in Int \X Int, NEW m, m = Larger(x, y)
  PROVE  m \in {x, y} /\ ~Above(x, m) /\ ~Above(y, m)
<1>1. ~Above(x, x) /\ ~Above(y, y)
  <2>1. /\ x[1] \in Int /\ x[2] \in Int /\ x[1] * x[2] \in Int
        /\ y[1] \in Int /\ y[2] \in Int /\ y[1] * y[2] \in Int
    OBVIOUS
  <2> QED
    BY <2>1 DEF Above
<1>2. Above(x, y) => ~Above(y, x)
  <2> DEFINE p == x[1] * y[2]
             q == y[1] * x[2]
  <2>1. p \in Int /\ q \in Int
    OBVIOUS
  <2>2. (Above(x, y) <=> p > q) /\ (Above(y, x) <=> q > p)
    BY DEF Above
  <2> HIDE DEF p, q
  <2> QED
    BY <2>1, <2>2
<1> QED
  BY <1>1, <1>2 DEF Larger

\* What a trade leaves after its costs.
LEMMA NetOfCosts ==
  ASSUME NEW p \in Position, NEW x \in [reason : Reasons, price : Int], NEW t \in Slots,
         NEW tr, tr = CloseTrade(p, x, t)
  PROVE  tr.net = tr.gross - tr.charges - tr.slippage
<1> DEFINE gross == (IF p.side = "BUY" THEN x.price - p.entry ELSE p.entry - x.price) * Qty
           charges == Charges(p.side, p.entry, x.price)
           slippage == (SlippagePct * (p.entry + x.price) * Qty) \div 100
<1>1. tr = [side |-> p.side, entryTs |-> p.entryTs, entry |-> p.entry,
            exitTs |-> t, exit |-> x.price, reason |-> x.reason, gross |-> gross,
            charges |-> charges, slippage |-> slippage, net |-> gross - charges - slippage]
  BY DEF CloseTrade
<1> HIDE DEF gross, charges, slippage
<1> QED
  BY <1>1

LEMMA AccountRecorded ==
  ASSUME NEW bk \in Book, Account(bk), NEW tr \in Trade,
         tr.net = tr.gross - tr.charges - tr.slippage, NEW new, new = RecordTrade(bk, tr)
  PROVE  Account(new)
<1> DEFINE trs == bk.trades
           n == Len(trs)
           more == Append(trs, tr)
           e == Equity(more)[n + 1]
           p == Peak(more)[n + 1]
           deep == <<p - e, p>>
<1>1. /\ trs \in Seq(Trade) /\ n \in Nat /\ n \in 0..n
      /\ bk.equity \in Int /\ bk.peak \in Int /\ bk.maxdd \in Int \X Int
  BY DEF Book
<1>2. /\ more \in Seq(Trade) /\ Len(more) = n + 1 /\ more[n + 1] = tr
      /\ \A k \in 1..n : more[k] = trs[k]
  BY <1>1, AppendProperties
<1>3. \A k \in 0..n : /\ Equity(more)[k] = Equity(trs)[k] /\ Peak(more)[k] = Peak(trs)[k]
                      /\ Depth(more, k) = Depth(trs, k)
  BY <1>1, HistoryKept
<1>4. bk.equity = Equity(trs)[n] /\ bk.peak = Peak(trs)[n] /\ bk.maxdd[2] > 0
  BY DEF Account
<1>5. \A k \in 0..n : ~Above(Depth(trs, k), bk.maxdd)
  BY DEF Account
<1>6. \E k \in 0..n : ~Above(bk.maxdd, Depth(trs, k))
  BY DEF Account
<1>7. \A k \in 1..n : trs[k].net = trs[k].gross - trs[k].charges - trs[k].slippage
  BY DEF Account
<1> HIDE DEF n, more, trs
<1>8. /\ e = Equity(more)[n] + tr.net /\ p = Max({Peak(more)[n], e})
      /\ e \in Int /\ p \in Int /\ p > 0
  <2> DEFINE eq == Equity(more)
             pk == Peak(more)
  <2>1. /\ \A k \in 1..(n + 1) : eq[k] = eq[k - 1] + more[k].net
        /\ \A k \in 1..(n + 1) : pk[k] = Max({pk[k - 1], eq[k]})
        /\ \A k \in 0..(n + 1) : eq[k] \in Int /\ pk[k] \in Int /\ pk[k] > 0
    BY <1>2, AccountRuns
  <2>2. n + 1 \in 1..(n + 1) /\ n + 1 \in 0..(n + 1) /\ (n + 1) - 1 = n
    BY <1>1
  <2> HIDE DEF eq, pk
  <2>3. /\ eq[n + 1] = eq[n] + tr.net /\ pk[n + 1] = Max({pk[n], eq[n + 1]})
        /\ eq[n + 1] \in Int /\ pk[n + 1] \in Int /\ pk[n + 1] > 0
    BY <1>2, <2>1, <2>2
  <2> QED
    BY <2>3 DEF eq, pk
<1>9. e = bk.equity + tr.net /\ p = Max({bk.peak, e})
  BY <1>1, <1>3, <1>4, <1>8
<1>10. deep = Depth(more, n + 1)
  BY DEF Depth
<1>11. deep \in Int \X Int /\ deep[2] > 0
  <2> HIDE DEF e, p
  <2> QED
    BY <1>8
<1>12. /\ new.trades = more /\ new.equity = e /\ new.peak = p
       /\ new.maxdd = Larger(deep, bk.maxdd)
  <2>1. new = [bk EXCEPT !.open = None, !.trades = more, !.equity = e, !.peak = p,
                         !.maxdd = Larger(deep, bk.maxdd)]
    <3> DEFINE eq == bk.equity + tr.net
               pk == Max({bk.peak, eq})
    <3>1. new = [bk EXCEPT !.open = None, !.trades = Append(@, tr), !.equity = eq,
                           !.peak = pk, !.maxdd = Larger(<<pk - eq, pk>>, @)]
      BY DEF RecordTrade
    <3>2. eq = e /\ pk = p
      BY <1>9
    <3> HIDE DEF eq, pk, e, p
    <3> QED
      BY <3>1, <3>2 DEF more, trs
  <2> HIDE DEF deep, e, p
  <2> QED
    BY <2>1 DEF Book
<1> DEFINE worst == Larger(deep, bk.maxdd)
<1> HIDE DEF deep
<1>13. worst \in {deep, bk.maxdd} /\ ~Above(deep, worst) /\ ~Above(bk.maxdd, worst)
  BY <1>1, <1>11, LargerOfTwo
<1>14. worst \in Int \X Int /\ worst[2] > 0
  BY <1>1, <1>4, <1>11, <1>13
<1> HIDE DEF worst
<1>15. \A k \in 0..(n + 1) : Depth(more, k) \in Int \X Int /\ Depth(more, k)[2] > 0
  <2>1. ASSUME NEW k \in 0..(n + 1)
        PROVE Depth(more, k) \in Int \X Int /\ Depth(more, k)[2] > 0
    <3> DEFINE a == Equity(more)[k]
               b == Peak(more)[k]
    <3>1. a \in Int /\ b \in Int /\ b > 0
      BY <1>2, AccountRuns
    <3>2. Depth(more, k) = <<b - a, b>>
      BY DEF Depth
    <3> HIDE DEF a, b
    <3> QED
      BY <3>1, <3>2
  <2> QED
    BY <2>1
<1>16. ASSUME NEW k \in 0..(n + 1) PROVE ~Above(Depth(more, k), worst)
  <2>1. CASE k = n + 1
    BY <1>10, <1>13, <2>1
  <2>2. CASE k # n + 1
    <3>1. k \in 0..n
      BY <1>1, <2>2
    <3>2. ~Above(Depth(more, k), bk.maxdd)
      BY <1>3, <1>5, <3>1
    <3> QED
      BY <1>1, <1>4, <1>13, <1>14, <1>15, <3>2, NotAboveTransitive
  <2> QED
    BY <2>1, <2>2
<1>17. \E k \in 0..(n + 1) : ~Above(worst, Depth(more, k))
  <2>1. CASE worst = deep
    <3>1. n + 1 \in 0..(n + 1)
      BY <1>1
    <3> QED
      BY <1>10, <1>13, <2>1, <3>1
  <2>2. CASE worst = bk.maxdd
    <3>1. PICK k \in 0..n : ~Above(bk.maxdd, Depth(trs, k))
      BY <1>6
    <3>2. k \in 0..(n + 1) /\ Depth(more, k) = Depth(trs, k)
      BY <1>1, <1>3, <3>1
    <3> QED
      BY <2>2, <3>1, <3>2
  <2> QED
    BY <1>13, <2>1, <2>2
<1>18. ASSUME NEW k \in 1..(n + 1)
       PROVE  more[k].net = more[k].gross - more[k].charges - more[k].slippage
  <2>1. CASE k = n + 1
    BY <1>2, <2>1
  <2>2. CASE k # n + 1
    <3>1. k \in 1..n
      BY <1>1, <2>2
    <3> QED
      BY <1>2, <1>7, <3>1
  <2> QED
    BY <2>1, <2>2
<1>19. new.maxdd = worst
  BY <1>12 DEF worst
<1> QED
  BY <1>2, <1>12, <1>14, <1>16, <1>17, <1>18, <1>19 DEF Account, e, p

LEMMA AccountClosed ==
  ASSUME NEW bk \in Book, Account(bk), bk.open # None,
         NEW x \in [reason : Reasons, price : Int], NEW t \in Slots
  PROVE  Account(Close(bk, x, t)) /\ Close(bk, x, t) \in Book
<1> DEFINE tr == CloseTrade(bk.open, x, t)
<1>1. bk.open \in Position
  BY DEF Book
<1>2. tr \in Trade
  BY <1>1, ClosedTrade
<1>3. tr.net = tr.gross - tr.charges - tr.slippage
  BY <1>1, NetOfCosts
<1>4. Close(bk, x, t) = RecordTrade(bk, tr)
  BY DEF Close
<1> HIDE DEF tr
<1> QED
  BY <1>2, <1>3, <1>4, AccountRecorded, RecordedTrade

LEMMA AccountOpened ==
  ASSUME NEW bk \in Book, Account(bk), NEW side, NEW b, NEW t
  PROVE  Account(Opened(bk, side, b, t))
<1> DEFINE new == Opened(bk, side, b, t)
<1>1. /\ new.trades = bk.trades /\ new.equity = bk.equity
      /\ new.peak = bk.peak /\ new.maxdd = bk.maxdd
  BY DEF Opened, Book
<1> HIDE DEF new
<1>2. Account(new)
  BY <1>1 DEF Account
<1> QED
  BY <1>2 DEF new

\* The report of a run, and the invariant of the account.
Report(bk) ==
  LET sum(f) == Total(Column(bk.trades, f))
  IN  [net |-> sum("gross") - sum("charges") - sum("slippage"),
       wins |-> Count(Winning(bk.trades)), losses |-> Count(Losing(bk.trades)),
       maxdd |-> bk.maxdd, stats |-> ComputeTradeStats(bk.trades),
       chart |-> BuildChartData(bk.trades, 0, Horizon)]
AccountInv ==
  /\ Account(book)
  /\ result # <<>> => Len(bars) = Len(stamps) /\ ~Due /\ result = <<Report(book)>>

LEMMA InitialAccount == Init => AccountInv
<1> SUFFICES ASSUME Init PROVE AccountInv
  OBVIOUS
<1>1. /\ result = <<>>
      /\ book = [open |-> None, trades |-> <<>>, equity |-> Capital,
                 peak |-> Capital, maxdd |-> <<0, 1>>]
  BY DEF Init
<1> DEFINE trs == book.trades
<1>2. trs \in Seq(Trade) /\ Len(trs) = 0
  BY <1>1
<1>3. Equity(trs)[0] = Capital /\ Peak(trs)[0] = Capital /\ Capital \in Int /\ Capital > 0
  BY <1>2, AccountRuns, EngineAssumption
<1>4. Depth(trs, 0) = <<0, Capital>>
  <2> DEFINE e == Equity(trs)[0]
             p == Peak(trs)[0]
  <2>1. e = Capital /\ p = Capital /\ Depth(trs, 0) = <<p - e, p>>
    BY <1>3 DEF Depth
  <2> HIDE DEF e, p
  <2> QED
    BY <1>3, <2>1
<1>5. ~Above(<<0, Capital>>, <<0, 1>>) /\ ~Above(<<0, 1>>, <<0, Capital>>)
  BY <1>3 DEF Above
<1>6. book.equity = Capital /\ book.peak = Capital /\ book.maxdd = <<0, 1>>
  BY <1>1
<1> HIDE DEF trs
<1>7. \A k \in 0..0 : k = 0
  OBVIOUS
<1>8. Account(book)
  <2>1. \A k \in 0..0 : ~Above(Depth(trs, k), book.maxdd)
    BY <1>4, <1>5, <1>6, <1>7
  <2>2. \E k \in 0..0 : ~Above(book.maxdd, Depth(trs, k))
    BY <1>4, <1>5, <1>6
  <2>3. \A k \in 1..0 : FALSE
    OBVIOUS
  <2>4. book.maxdd[2] > 0
    BY <1>6
  <2>5. trs = book.trades
    BY DEF trs
  <2> QED
    BY <1>2, <1>3, <1>6, <2>1, <2>2, <2>3, <2>4, <2>5 DEF Account
<1> QED
  BY <1>1, <1>8 DEF AccountInv

LEMMA AccountStep ==
  ASSUME EngineInv, AccountInv, Next
  PROVE  AccountInv'
<1>1. /\ book \in Book /\ Account(book)
      /\ StreamsOK /\ WalkOK /\ QueueOK /\ bars \in Seq(Bars)
  BY DEF EngineInv, AccountInv, BookOK, Fits, WalkOK
<1>2. CASE ScheduleSignal
  <2>1. bars = <<>> /\ cursor.sig <= Len(signals)
    <3>1. cursor.sig <= Len(signals) /\ Len(signals) \in Nat
      BY <1>1, <1>2, StreamFacts DEF ScheduleSignal
    <3>2. ~(cursor.sig = Len(signals) + 1)
      BY <3>1
    <3> QED
      BY <1>1, <3>1, <3>2 DEF WalkOK
  <2>2. result = <<>>
    BY <1>1, <2>1, StreamFacts DEF AccountInv
  <2>3. book' = book /\ result' = <<>>
    BY <1>2, <2>2 DEF ScheduleSignal
  <2> QED
    BY <1>1, <2>3 DEF AccountInv, Account
<1>3. CASE WalkCandle
  <2> DEFINE t == stamps[Len(bars) + 1]
  <2>1. PICK b \in Bars : book' = AfterExit(book, b, t)
    BY <1>3 DEF WalkCandle
  <2>2. result' = <<>> /\ t \in Slots
    <3>1. Len(bars) \in Nat /\ Len(bars) < Len(stamps)
      BY <1>1, <1>3 DEF WalkCandle
    <3>2. Len(bars) + 1 \in 1..Len(stamps)
      BY <1>1, <3>1, StreamFacts
    <3> QED
      BY <1>1, <1>3, <3>2, StreamFacts DEF WalkCandle
  <2> DEFINE x == CheckExitConditions(book.open, b, t)
             new == AfterExit(book, b, t)
  <2> HIDE DEF t
  <2>3. \/ new = book
        \/ /\ new = Close(book, x, t) /\ book.open # None
           /\ x \in [reason : Rules, price : Int]
    BY <1>1, <2>2, CheckedExit
  <2> HIDE DEF new, x
  <2>4. Account(new)
    <3>1. CASE new = book
      BY <1>1, <3>1
    <3>2. CASE new = Close(book, x, t) /\ book.open # None /\ x \in [reason : Rules, price : Int]
      <4>1. x \in [reason : Reasons, price : Int]
        BY <3>2 DEF Reasons
      <4> QED
        BY <1>1, <2>2, <3>2, <4>1, AccountClosed
    <3> QED
      BY <2>3, <3>1, <3>2
  <2>5. book' = new
    BY <2>1 DEF new
  <2> QED
    BY <2>2, <2>4, <2>5 DEF AccountInv, Account
<1>4. CASE ExecuteSignal
  <2> DEFINE side == queue[sigIdx + 1].sig.side
             b == Last(bars)
             new == AfterSignal(book, side, b, Now)
             x == Exit("signal_reversal", b.open)
  <2>1. Due /\ book' = new /\ result' = result
    BY <1>4 DEF ExecuteSignal
  <2>2. result = <<>>
    BY <2>1 DEF AccountInv
  <2>3. Now \in Slots /\ b \in Bars
    <3>1. Len(bars) \in 1..Len(stamps) /\ b = bars[Len(bars)]
      BY <1>1, <2>1, StreamFacts DEF Due, WalkOK, Last
    <3>2. bars[Len(bars)] \in Bars
      BY <1>1, <3>1
    <3> QED
      BY <1>1, <3>1, <3>2, StreamFacts DEF Now
  <2> HIDE DEF b
  <2>4. x \in [reason : Reasons, price : Int]
    BY <2>3, EngineAssumption DEF Exit, Reasons
  <2> HIDE DEF side, x
  <2>5. Account(new)
    <3>1. CASE book.open = None
      BY <1>1, <3>1, AccountOpened DEF AfterSignal
    <3>2. CASE book.open # None /\ book.open.side = side
      BY <1>1, <3>2 DEF AfterSignal
    <3>3. CASE book.open # None /\ book.open.side # side
      <4>1. new = Opened(Close(book, x, Now), side, b, Now)
        BY <3>3 DEF AfterSignal, x
      <4>2. Account(Close(book, x, Now)) /\ Close(book, x, Now) \in Book
        BY <1>1, <2>3, <2>4, <3>3, AccountClosed
      <4> QED
        BY <4>1, <4>2, AccountOpened
    <3> QED
      BY <3>1, <3>2, <3>3
  <2> HIDE DEF new
  <2> QED
    BY <2>1, <2>2, <2>5 DEF AccountInv, Account
<1>5. CASE Finish
  <2> DEFINE x == Exit("end_of_data", Last(bars).close)
             t == Last(stamps)
             new == IF book.open = None THEN book ELSE Close(book, x, t)
  <2>1. /\ Len(bars) = Len(stamps) /\ ~Due
        /\ UNCHANGED <<stamps, queue, sigIdx, bars>>
        /\ book' = new /\ result' = <<Report(new)>>
    BY <1>5 DEF Finish, Report
  <2>2. t \in Slots /\ Last(bars) \in Bars
    <3>1. Len(bars) \in 1..Len(stamps) /\ Len(stamps) \in 1..Len(stamps)
      BY <1>1, <2>1, StreamFacts
    <3>2. Last(bars) = bars[Len(bars)] /\ t = stamps[Len(stamps)] /\ bars[Len(bars)] \in Bars
      BY <1>1, <2>1, <3>1 DEF Last
    <3> QED
      BY <1>1, <3>1, <3>2, StreamFacts
  <2>3. x \in [reason : Reasons, price : Int]
    BY <2>2, EngineAssumption DEF Exit, Reasons
  <2> HIDE DEF x, t
  <2>4. Account(new)
    BY <1>1, <2>2, <2>3, AccountClosed
  <2>5. (~Due)' /\ (Len(bars) = Len(stamps))'
    BY <2>1 DEF Due, Now
  <2> HIDE DEF new
  <2>6. Account(book') /\ result' = <<Report(book')>>
    BY <2>1, <2>4
  <2>7. Account(book)' /\ Report(book)' = Report(book')
    BY <2>6 DEF Account, Report
  <2> QED
    BY <2>5, <2>6, <2>7 DEF AccountInv
<1> QED
  BY <1>2, <1>3, <1>4, <1>5 DEF Next

-----------------------------------------------------------------------------
(* The figures of the report.                                              *)

\* The chart goes through the start, every trade, and the end.
LEMMA ChartOfTrades ==
  ASSUME NEW trs \in Seq(Trade), NEW from, NEW to, NEW c, c = BuildChartData(trs, from, to)
  PROVE  LET n == Len(trs)
         IN  /\ \A k \in DOMAIN c : \E j \in 0..n : c[k].down = Depth(trs, j)
             /\ \A j \in 0..n : \E k \in DOMAIN c : c[k].down = Depth(trs, j)
             /\ Last(c).equity = Equity(trs)[n]
<1> DEFINE n == Len(trs)
           eq == Equity(trs)
           pk == Peak(trs)
           when(j) == IF j = 1 THEN from ELSE trs[j - 1].exitTs
           points == [j \in 1..(n + 1) |-> ChartPoint(when(j), eq[j - 1], pk[j - 1])]
           end == ChartPoint(to, eq[n], pk[n])
<1>1. n \in Nat /\ n \in 0..n /\ n + 1 \in 1..(n + 1) /\ (n + 1) - 1 = n
  OBVIOUS
<1>2. c = IF trs # <<>> /\ trs[n].exitTs = to THEN points ELSE Append(points, end)
  BY DEF BuildChartData, Equity, Peak, EquitySeq
<1>3. \A ts, j : ChartPoint(ts, eq[j], pk[j]).down = Depth(trs, j)
                 /\ ChartPoint(ts, eq[j], pk[j]).equity = eq[j]
  BY DEF ChartPoint, Depth
<1> HIDE DEF n, eq, pk, when
<1>4. /\ points \in Seq({points[j] : j \in 1..(n + 1)}) /\ Len(points) = n + 1
      /\ DOMAIN points = 1..(n + 1)
      /\ \A j \in 1..(n + 1) : /\ points[j].down = Depth(trs, j - 1)
                               /\ points[j].equity = eq[j - 1]
  <2>1. \A j \in 1..(n + 1) : points[j] = ChartPoint(when(j), eq[j - 1], pk[j - 1])
    OBVIOUS
  <2>2. DOMAIN points = 1..(n + 1) /\ points = [j \in 1..(n + 1) |-> points[j]]
    OBVIOUS
  <2> HIDE DEF points
  <2>3. points \in Seq({points[j] : j \in 1..(n + 1)}) /\ Len(points) = n + 1
    <3> DEFINE m == n + 1
               V == {points[j] : j \in 1..m}
    <3>1. m \in Nat /\ \A j \in 1..m : points[j] \in V
      BY <1>1
    <3> HIDE DEF m, V
    <3>2. points \in [1..m -> V]
      BY <2>2, <3>1 DEF m
    <3>3. points \in Seq(V) /\ Len(points) = m
      BY <3>1, <3>2
    <3> QED
      BY <3>3 DEF m, V
  <2>4. \A j \in 1..(n + 1) : /\ points[j].down = Depth(trs, j - 1)
                              /\ points[j].equity = eq[j - 1]
    BY <1>3, <2>1
  <2> QED
    BY <2>2, <2>3, <2>4
<1>5. end.down = Depth(trs, n) /\ end.equity = eq[n]
  BY <1>3
<1> HIDE DEF points, end
<1>6. \A j \in 1..(n + 1) : j - 1 \in 0..n
  BY <1>1
<1>7. \A j \in 0..n : j + 1 \in 1..(n + 1) /\ (j + 1) - 1 = j
  BY <1>1
<1>8. CASE c = points
  <2>1. Last(c) = points[n + 1]
    BY <1>4, <1>8 DEF Last
  <2>2. Last(c).equity = eq[n]
    BY <1>1, <1>4, <2>1
  <2>3. \A k \in DOMAIN c : \E j \in 0..n : c[k].down = Depth(trs, j)
    BY <1>4, <1>6, <1>8
  <2>4. \A j \in 0..n : \E k \in DOMAIN c : c[k].down = Depth(trs, j)
    BY <1>4, <1>7, <1>8
  <2> QED
    BY <2>2, <2>3, <2>4 DEF n, eq
<1>9. CASE c = Append(points, end)
  <2>1. /\ Len(c) = (n + 1) + 1 /\ DOMAIN c = 1..((n + 1) + 1)
        /\ c[(n + 1) + 1] = end
        /\ \A j \in 1..(n + 1) : c[j] = points[j] /\ j \in DOMAIN c
    BY <1>1, <1>4, <1>9
  <2>2. Last(c).equity = eq[n]
    BY <1>5, <2>1 DEF Last
  <2>3. ASSUME NEW k \in DOMAIN c PROVE \E j \in 0..n : c[k].down = Depth(trs, j)
    <3>1. CASE k \in 1..(n + 1)
      BY <1>4, <1>6, <2>1, <3>1
    <3>2. CASE k = (n + 1) + 1
      BY <1>1, <1>5, <2>1, <3>2
    <3> QED
      BY <1>1, <2>1, <3>1, <3>2
  <2>4. \A j \in 0..n : \E k \in DOMAIN c : c[k].down = Depth(trs, j)
    BY <1>4, <1>7, <2>1
  <2> QED
    BY <2>2, <2>3, <2>4 DEF n, eq
<1> QED
  BY <1>2, <1>8, <1>9

\* The net result is what the trades made after their costs.
LEMMA NetIsTotal ==
  ASSUME NEW trs \in Seq(Trade),
         \A k \in 1..Len(trs) : LET tr == trs[k]
                                IN  tr.net = tr.gross - tr.charges - tr.slippage
  PROVE  /\ Total(Column(trs, "net")) \in Int
         /\ Total(Column(trs, "net")) = Total(Column(trs, "gross"))
              - Total(Column(trs, "charges")) - Total(Column(trs, "slippage"))
<1> DEFINE n == Len(trs)
           net == Column(trs, "net")
           gross == Column(trs, "gross")
           charges == Column(trs, "charges")
           slippage == Column(trs, "slippage")
           costs == [k \in 1..n |-> charges[k] + slippage[k]]
<1>1. n \in Nat
  OBVIOUS
<1>2. net \in Seq(Int) /\ Len(net) = n /\ \A k \in 1..n : net[k] = trs[k].net /\ net[k] \in Int
  BY NetTyped, ColumnTyped
<1>3. /\ gross \in Seq(Int) /\ Len(gross) = n
      /\ \A k \in 1..n : gross[k] = trs[k].gross /\ gross[k] \in Int
  <2>1. \A tr \in Trade : tr["gross"] \in Int
    BY DEF Trade
  <2> QED
    BY <2>1, ColumnTyped
<1>4. /\ charges \in Seq(Int) /\ Len(charges) = n
      /\ \A k \in 1..n : charges[k] = trs[k].charges /\ charges[k] \in Int
  <2>1. \A tr \in Trade : tr["charges"] \in Int
    BY DEF Trade
  <2> QED
    BY <2>1, ColumnTyped
<1>5. /\ slippage \in Seq(Int) /\ Len(slippage) = n
      /\ \A k \in 1..n : slippage[k] = trs[k].slippage /\ slippage[k] \in Int
  <2>1. \A tr \in Trade : tr["slippage"] \in Int
    BY DEF Trade
  <2> QED
    BY <2>1, ColumnTyped
<1>6. \A k \in 1..n : trs[k].net = trs[k].gross - trs[k].charges - trs[k].slippage
  OBVIOUS
<1> HIDE DEF n, net, gross, charges, slippage
<1>7. costs \in Seq(Int) /\ Len(costs) = n /\ \A k \in 1..n : costs[k] = charges[k] + slippage[k]
  BY <1>1, <1>4, <1>5
<1> HIDE DEF costs
<1>8. \A k \in 1..n : gross[k] = net[k] + costs[k]
  <2>1. ASSUME NEW k \in 1..n PROVE gross[k] = net[k] + costs[k]
    <3> DEFINE a == net[k]
               b == gross[k]
               c == charges[k]
               d == slippage[k]
    <3>1. /\ a \in Int /\ b \in Int /\ c \in Int /\ d \in Int
          /\ a = b - c - d /\ costs[k] = c + d
      BY <1>2, <1>3, <1>4, <1>5, <1>6, <1>7
    <3> HIDE DEF a, b, c, d
    <3>2. b = a + (c + d)
      BY <3>1
    <3> QED
      BY <3>1, <3>2 DEF a, b
  <2> QED
    BY <2>1
<1>9. Total(gross) = Total(net) + Total(costs)
  <2>1. /\ Len(costs) = Len(net) /\ Len(gross) = Len(net)
        /\ \A k \in 1..Len(net) : gross[k] = net[k] + costs[k]
    BY <1>2, <1>3, <1>7, <1>8
  <2>2. net \in Seq(Int) /\ costs \in Seq(Int) /\ gross \in Seq(Int)
    BY <1>2, <1>3, <1>7
  <2> QED
    BY <2>1, <2>2, SumsAdd
<1>10. Total(costs) = Total(charges) + Total(slippage)
  <2>1. /\ Len(slippage) = Len(charges) /\ Len(costs) = Len(charges)
        /\ \A k \in 1..Len(charges) : costs[k] = charges[k] + slippage[k]
    BY <1>4, <1>5, <1>7
  <2>2. charges \in Seq(Int) /\ slippage \in Seq(Int) /\ costs \in Seq(Int)
    BY <1>4, <1>5, <1>7
  <2> QED
    BY <2>1, <2>2, SumsAdd
<1>11. /\ Total(net) \in Int /\ Total(gross) \in Int
       /\ Total(charges) \in Int /\ Total(slippage) \in Int
  <2>1. 0 \in Int /\ \A v \in Seq(Int) : Total(v) \in Int
    BY SumsShift
  <2> QED
    BY <1>2, <1>3, <1>4, <1>5, <2>1
<1> DEFINE a == Total(net)
           b == Total(gross)
           c == Total(charges)
           d == Total(slippage)
<1> HIDE DEF a, b, c, d
<1>12. a = b - c - d /\ a \in Int
  BY <1>9, <1>10, <1>11 DEF a, b, c, d
<1> QED
  BY <1>12 DEF a, b, c, d, net, gross, charges, slippage

\* Which trades won and which lost.
LEMMA FlagsTyped ==
  ASSUME NEW trs \in Seq(Trade)
  PROVE  /\ Winning(trs) \in Seq(BOOLEAN) /\ Len(Winning(trs)) = Len(trs)
         /\ \A k \in 1..Len(trs) : Winning(trs)[k] <=> Won(trs[k])
         /\ Losing(trs) \in Seq(BOOLEAN) /\ Len(Losing(trs)) = Len(trs)
         /\ \A k \in 1..Len(trs) : Losing(trs)[k] <=> Lost(trs[k])
<1> DEFINE n == Len(trs)
           won == [k \in 1..n |-> Won(trs[k])]
           lost == [k \in 1..n |-> Lost(trs[k])]
<1>1. n \in Nat /\ DOMAIN trs = 1..n
  OBVIOUS
<1>2. Winning(trs) = won /\ Losing(trs) = lost
  BY <1>1 DEF Winning, Losing
<1>3. \A k \in 1..n : Won(trs[k]) \in BOOLEAN /\ Lost(trs[k]) \in BOOLEAN
  BY DEF Won, Lost
<1> HIDE DEF n
<1>4. won \in [1..n -> BOOLEAN] /\ lost \in [1..n -> BOOLEAN]
  BY <1>3
<1>5. (\A k \in 1..n : won[k] <=> Won(trs[k])) /\ (\A k \in 1..n : lost[k] <=> Lost(trs[k]))
  OBVIOUS
<1> HIDE DEF won, lost
<1>6. won \in Seq(BOOLEAN) /\ Len(won) = n /\ lost \in Seq(BOOLEAN) /\ Len(lost) = n
  BY <1>1, <1>4
<1> QED
  BY <1>2, <1>5, <1>6 DEF n

\* The reported streaks are the longest runs.
LEMMA StreaksReported ==
  ASSUME book.trades \in Seq(Trade)
  PROVE  /\ LongestStreak(Winning(book.trades)) = LongestRun(Won)
         /\ LongestStreak(Losing(book.trades)) = LongestRun(Lost)
<1> DEFINE trs == book.trades
           n == Len(trs)
           wins == {r \in (1..n) \X (1..n) : r[1] <= r[2] /\ \A k \in r[1]..r[2] : Won(trs[k])}
           losses == {r \in (1..n) \X (1..n) : r[1] <= r[2] /\ \A k \in r[1]..r[2] : Lost(trs[k])}
<1>1. n \in Nat /\ DOMAIN trs = 1..n
  OBVIOUS
<1>2. /\ LongestRun(Won) = Max({r[2] - r[1] + 1 : r \in wins} \cup {0})
      /\ LongestRun(Lost) = Max({r[2] - r[1] + 1 : r \in losses} \cup {0})
  BY <1>1 DEF LongestRun
<1>3. /\ Len(Winning(trs)) = n /\ Len(Losing(trs)) = n
      /\ \A k \in 1..n : (Winning(trs)[k] <=> Won(trs[k])) /\ (Losing(trs)[k] <=> Lost(trs[k]))
  BY FlagsTyped
<1>4. \A r \in (1..n) \X (1..n) : \A k \in r[1]..r[2] : k \in 1..n
  <2> HIDE DEF n
  <2> QED
    BY <1>1
<1>5. Runs(Winning(trs)) = wins
  <2>1. \A r \in (1..n) \X (1..n) :
          (\A k \in r[1]..r[2] : Winning(trs)[k]) <=> (\A k \in r[1]..r[2] : Won(trs[k]))
    BY <1>3, <1>4
  <2> HIDE DEF n, trs
  <2> QED
    BY <1>3, <2>1 DEF Runs
<1>6. Runs(Losing(trs)) = losses
  <2>1. \A r \in (1..n) \X (1..n) :
          (\A k \in r[1]..r[2] : Losing(trs)[k]) <=> (\A k \in r[1]..r[2] : Lost(trs[k]))
    BY <1>3, <1>4
  <2> HIDE DEF n, trs
  <2> QED
    BY <1>3, <2>1 DEF Runs
<1> HIDE DEF wins, losses
<1>7. LongestStreak(Winning(trs)) = Max({r[2] - r[1] + 1 : r \in wins} \cup {0})
  BY <1>5, FlagsTyped, LongestIsLongest DEF Lengths
<1>8. LongestStreak(Losing(trs)) = Max({r[2] - r[1] + 1 : r \in losses} \cup {0})
  BY <1>6, FlagsTyped, LongestIsLongest DEF Lengths
<1> QED
  BY <1>2, <1>7, <1>8

\* What was won and what was lost make up the net result.
LEMMA WonAndLost ==
  ASSUME NEW trs \in Seq(Trade)
  PROVE  LET nets == Column(trs, "net")
         IN  /\ SumWhere(Winning(trs), nets) \in Int /\ SumWhere(Losing(trs), nets) \in Int
             /\ SumWhere(Winning(trs), nets) + SumWhere(Losing(trs), nets) = Total(nets)
<1> DEFINE n == Len(trs)
           nets == Column(trs, "net")
           won == [k \in 1..n |-> IF Winning(trs)[k] THEN nets[k] ELSE 0]
           lost == [k \in 1..n |-> IF Losing(trs)[k] THEN nets[k] ELSE 0]
<1>1. n \in Nat
  OBVIOUS
<1>2. /\ nets \in Seq(Int) /\ Len(nets) = n /\ DOMAIN nets = 1..n
      /\ \A k \in 1..n : nets[k] = trs[k].net /\ nets[k] \in Int
  BY NetTyped, ColumnTyped
<1>3. SumWhere(Winning(trs), nets) = Total(won) /\ SumWhere(Losing(trs), nets) = Total(lost)
  BY <1>2 DEF SumWhere
<1>4. \A k \in 1..n : (Winning(trs)[k] <=> trs[k].net > 0) /\ (Losing(trs)[k] <=> trs[k].net < 0)
  BY FlagsTyped DEF Won, Lost
<1> HIDE DEF n, nets
<1>5. /\ won \in Seq(Int) /\ Len(won) = n
      /\ \A k \in 1..n : won[k] = IF nets[k] > 0 THEN nets[k] ELSE 0
  <2>1. \A k \in 1..n : won[k] = IF nets[k] > 0 THEN nets[k] ELSE 0
    BY <1>2, <1>4
  <2>2. won = [k \in 1..n |-> won[k]]
    OBVIOUS
  <2> HIDE DEF won
  <2>3. \A k \in 1..n : won[k] \in Int
    BY <1>2, <2>1
  <2> QED
    BY <1>1, <2>1, <2>2, <2>3
<1>6. /\ lost \in Seq(Int) /\ Len(lost) = n
      /\ \A k \in 1..n : lost[k] = IF nets[k] < 0 THEN nets[k] ELSE 0
  <2>1. \A k \in 1..n : lost[k] = IF nets[k] < 0 THEN nets[k] ELSE 0
    BY <1>2, <1>4
  <2>2. lost = [k \in 1..n |-> lost[k]]
    OBVIOUS
  <2> HIDE DEF lost
  <2>3. \A k \in 1..n : lost[k] \in Int
    BY <1>2, <2>1
  <2> QED
    BY <1>1, <2>1, <2>2, <2>3
<1> HIDE DEF won, lost
<1>7. Total(nets) = Total(won) + Total(lost)
  <2>1. /\ Len(lost) = Len(won) /\ Len(nets) = Len(won)
        /\ \A k \in 1..Len(won) : nets[k] = won[k] + lost[k]
    BY <1>2, <1>5, <1>6
  <2>2. won \in Seq(Int) /\ lost \in Seq(Int) /\ nets \in Seq(Int)
    BY <1>2, <1>5, <1>6
  <2> QED
    BY <2>1, <2>2, SumsAdd
<1>8. Total(won) \in Int /\ Total(lost) \in Int
  <2>1. 0 \in Int /\ \A v \in Seq(Int) : Total(v) \in Int
    BY SumsShift
  <2> QED
    BY <1>5, <1>6, <2>1
<1> QED
  BY <1>3, <1>7, <1>8 DEF nets

LEMMA FiguresRight ==
  ASSUME EngineInv, AccountInv
  PROVE  FiguresAgreeWithTrades
<1> DEFINE trs == book.trades
           n == Len(trs)
           nets == Column(trs, "net")
           wins == SumWhere(Winning(trs), nets)
           losses == SumWhere(Losing(trs), nets)
           r == result[1]
           total == Total(nets)
<1>1. SUFFICES ASSUME result # <<>> PROVE DrawdownsAgree /\ StatisticsAgree
  BY DEF FiguresAgreeWithTrades, DrawdownsAgree, StatisticsAgree
<1>2. trs \in Seq(Trade) /\ n \in Nat
  BY DEF EngineInv, BookOK, Fits, Book
<1>3. Account(book) /\ r = Report(book)
  BY <1>1 DEF AccountInv
<1>4. /\ r.chart = BuildChartData(trs, 0, Horizon) /\ r.maxdd = book.maxdd
      /\ r.stats = ComputeTradeStats(trs)
      /\ r.wins = Count(Winning(trs)) /\ r.losses = Count(Losing(trs))
      /\ r.net = Total(Column(trs, "gross")) - Total(Column(trs, "charges"))
                   - Total(Column(trs, "slippage"))
  BY <1>3 DEF Report
<1>5. total \in Int /\ r.net = total
  <2>1. \A k \in 1..n : LET tr == trs[k] IN tr.net = tr.gross - tr.charges - tr.slippage
    BY <1>3 DEF Account
  <2> QED
    BY <1>2, <1>4, <2>1, NetIsTotal
<1>6. book.equity = Equity(trs)[n] /\ Equity(trs)[n] = Capital + total
  <2>1. nets \in Seq(Int) /\ Len(nets) = n /\ Capital \in Int
    BY <1>2, NetTyped, ColumnTyped, EngineAssumption
  <2>2. Sums(Capital, nets)[Len(nets)] = Capital + Total(nets)
    BY <2>1, SumsShift
  <2>3. book.equity = Equity(trs)[n]
    BY <1>3 DEF Account
  <2> QED
    BY <2>1, <2>2, <2>3 DEF Equity
<1>7. wins \in Int /\ losses \in Int /\ wins + losses = total
  BY <1>2, WonAndLost
<1> HIDE DEF total, wins, losses
<1>8. DrawdownsAgree
  <2> DEFINE chart == BuildChartData(trs, 0, Horizon)
  <2>1. /\ \A k \in DOMAIN chart : \E j \in 0..n : chart[k].down = Depth(trs, j)
        /\ \A j \in 0..n : \E k \in DOMAIN chart : chart[k].down = Depth(trs, j)
        /\ Last(chart).equity = Equity(trs)[n]
    <3>1. chart = BuildChartData(trs, 0, Horizon)
      OBVIOUS
    <3> HIDE DEF chart
    <3> QED
      BY <1>2, <3>1, ChartOfTrades
  <2>2. /\ \A j \in 0..n : ~Above(Depth(trs, j), book.maxdd)
        /\ \E j \in 0..n : ~Above(book.maxdd, Depth(trs, j))
    BY <1>3 DEF Account
  <2> HIDE DEF chart, trs, n
  <2>3. \A k \in DOMAIN chart : ~Above(chart[k].down, book.maxdd)
    BY <2>1, <2>2
  <2>4. \E k \in DOMAIN chart : ~Above(book.maxdd, chart[k].down)
    BY <2>1, <2>2
  <2>5. r.chart = chart /\ r.maxdd = book.maxdd
    BY <1>4 DEF chart, trs
  <2>6. Last(chart).equity = book.equity /\ book.equity = Capital + r.net
    BY <1>5, <1>6, <2>1
  <2> QED
    BY <2>3, <2>4, <2>5, <2>6 DEF DrawdownsAgree
<1>9. StatisticsAgree
  <2> DEFINE s == ComputeTradeStats(trs)
             factor == IF wins > 0 /\ losses < 0 THEN <<wins, -losses>> ELSE <<0, 0>>
  <2>1. /\ s.winSum = wins /\ s.lossSum = losses
        /\ s.winCount = Count(Winning(trs)) /\ s.lossCount = Count(Losing(trs))
        /\ s.profitFactor = factor
        /\ s.longestWin = LongestStreak(Winning(trs))
        /\ s.longestLoss = LongestStreak(Losing(trs))
    BY DEF ComputeTradeStats, wins, losses
  <2> HIDE DEF s
  <2>2. s.longestWin = LongestRun(Won) /\ s.longestLoss = LongestRun(Lost)
    BY <1>2, <2>1, StreaksReported
  <2>3. s.winSum + s.lossSum = r.net
    BY <1>5, <1>7, <2>1
  <2>4. s.winCount = r.wins /\ s.lossCount = r.losses
    BY <1>4, <2>1
  <2>5. factor # <<0, 0>> => (factor[1] > factor[2] <=> book.equity > Capital)
    <3>1. SUFFICES ASSUME wins > 0, losses < 0
                   PROVE  wins > -losses <=> book.equity > Capital
      OBVIOUS
    <3>2. book.equity = Capital + (wins + losses) /\ Capital \in Int
      BY <1>6, <1>7, EngineAssumption
    <3> QED
      BY <1>7, <3>2
  <2>6. r.stats = s
    BY <1>4 DEF s
  <2> HIDE DEF factor
  <2> QED
    BY <2>1, <2>2, <2>3, <2>4, <2>5, <2>6 DEF StatisticsAgree
<1> QED
  BY <1>8, <1>9

\* The drawdowns, the chart, the streaks, the sums and the counts a run reports
\* all follow from its trades, whichever loop computed them (recordTrade,
\* BuildChartData, ComputeTradeStats and computeStreaks).
THEOREM FiguresFollowFromTrades == Spec => []FiguresAgreeWithTrades
<1>1. EngineInv /\ AccountInv /\ [Next]_vars => AccountInv'
  <2> SUFFICES ASSUME EngineInv, AccountInv, [Next]_vars PROVE AccountInv'
    OBVIOUS
  <2>1. CASE Next
    BY <2>1, AccountStep
  <2>2. CASE UNCHANGED vars
    <3>1. UNCHANGED <<stamps, queue, sigIdx, bars, book, result>>
      BY <2>2 DEF vars
    <3>2. Account(book)'
      BY <3>1 DEF AccountInv, Account
    <3>3. (Due <=> Due') /\ Report(book)' = Report(book)
      BY <3>1 DEF Due, Now, Report
    <3> QED
      BY <3>1, <3>2, <3>3 DEF AccountInv
  <2> QED
    BY <2>1, <2>2
<1> QED
  BY InitialAccount, <1>1, FiguresRight, EngineInvariant, PTL DEF Spec
=============================================================================
