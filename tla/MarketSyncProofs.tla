-------------------------- MODULE MarketSyncProofs --------------------------
(***************************************************************************)
(* The market-data job for any calendar, any files and any number of       *)
(* starts, kills and corrections.  The invariant carries what the job      *)
(* knows from one stage to the next, and two facts about the tables that   *)
(* make a day's batch whole: a stored future has the continuous instrument *)
(* of its underlying, and a day with the candle of a future that has not   *)
(* expired has the continuous candle of that underlying.                   *)
(***************************************************************************)
EXTENDS MarketSync, WellFoundedInduction, TLAPS

HasRow == {"fo", "index", "cm", "upsert", "again", "candles", "complete"}
BeforeCandles == {"create", "fo", "index", "cm", "upsert", "again"}

\* What each stage knows of the stages before it.  The F&O file is downloaded
\* again only when the first one lists nothing.
JobOK ==
  /\ job.pc # "off" => job.day \in Days
  /\ job.pc \in HasRow => runs # <<>> /\ runs[Len(runs)].day = job.day
  /\ job.pc \in {"index", "cm", "upsert", "again", "candles"} => job.files["fo"] \in Versions
  /\ job.pc \in {"cm", "upsert", "again", "candles"} => job.files["index"] \in Versions
  /\ job.pc \in {"upsert", "again", "candles"} => job.files["cm"] \in Versions
  /\ job.pc \in {"again", "candles"} => ListedInstruments \subseteq instruments
  /\ job.pc \in BeforeCandles => job.again = 0
  /\ job.pc = "again" => FORows(job.day, job.files["fo"]) = {}
  /\ job.pc = "candles" /\ FORows(job.day, job.files["fo"]) # {} => job.again = 0
  /\ job.pc = "complete" /\ job.outcome = "COMPLETED" => DayStored(job.day, job.files)

SeriesKnown ==
  \A i \in instruments :
    i.kind = "future" /\ i.under # NoName => Named("continuous", i.under) \in instruments

SeriesComplete ==
  \A e \in candles :
    e.inst.kind = "future" /\ e.inst.under # NoName /\ e.inst.expiry >= e.day =>
      \E c \in candles : c.inst = Named("continuous", e.inst.under) /\ c.day = e.day

SyncInv ==
  /\ TypeOK
  /\ JobOK
  /\ SeriesKnown
  /\ SeriesComplete
  /\ CompletedMeansStored
  /\ ContinuousAgreesWithContracts
-----------------------------------------------------------------------------
(* The calendar and the files *)

LEMMA Calendars ==
  /\ Horizon \in Nat /\ Horizon >= 1 /\ Days \subseteq Nat /\ Days = 1..Horizon
  /\ Weekend \subseteq Days /\ Versions = {1, 2} /\ MaxStarts \in Nat
BY MarketSyncAssumption DEF Days, Versions

LessThan == {p \in Nat \X Nat : p[1] < p[2]}

\* A set of natural numbers that is not empty has a least element.
LEMMA LeastNumber ==
  ASSUME NEW T \in SUBSET Nat, T # {}
  PROVE  \E m \in T : \A n \in T : m <= n
<1>1. IsWellFoundedOn(LessThan, Nat)
  <2>1. OpToRel(<, Nat) = LessThan
    BY DEF OpToRel, LessThan
  <2> QED
    BY <2>1, NatLessThanWellFounded
<1>2. PICK m \in T : \A n \in T : ~(<<n, m>> \in LessThan)
  BY <1>1, WFMin
<1>3. ASSUME NEW n \in T PROVE m <= n
  <2>1. ~(n < m)
    BY <1>2 DEF LessThan
  <2> QED
    BY <2>1
<1> QED
  BY <1>3

\* Min chooses it.
LEMMA MinOfNumbers ==
  ASSUME NEW T \in SUBSET Nat, T # {}
  PROVE  Min(T) \in T /\ \A n \in T : Min(T) <= n
BY LeastNumber DEF Min

\* The day a catch-up goes on from is a day of the calendar.
LEMMA LastSyncedIsADay ==
  ASSUME TypeOK, candles # {}
  PROVE  LastSynced \in Days
<1> DEFINE S == {c.day : c \in candles}
<1>1. S \subseteq Days /\ S # {}
  BY DEF TypeOK
<1> DEFINE Bounds == {u \in Nat : \A d \in S : d <= u}
<1>2. Bounds \in SUBSET Nat /\ Horizon \in Bounds
  BY <1>1, Calendars
<1> HIDE DEF Bounds
<1>3. PICK u \in Bounds : \A v \in Bounds : u <= v
  BY <1>2, LeastNumber
<1> HIDE DEF S
<1>4. Max(S) \in S
  <2>1. S \subseteq Nat /\ u \in Nat /\ \A d \in S : d <= u
    BY <1>1, Calendars DEF Bounds
  <2>2. u \in S
    <3>1. SUFFICES ASSUME u \notin S PROVE FALSE
      OBVIOUS
    <3>2. \A d \in S : d <= u - 1 /\ u - 1 \in Nat
      BY <2>1, <3>1
    <3>3. u - 1 \in Bounds
      BY <1>1, <3>2 DEF Bounds
    <3> QED
      BY <1>3, <2>1, <3>3
  <2> QED
    BY <2>1, <2>2 DEF Max
<1>5. QED
  BY <1>1, <1>4 DEF LastSynced, S

\* After every day there is a day to go on with, perhaps the one past the end.
LEMMA NextTradingDayIsLater ==
  ASSUME NEW d \in Days
  PROVE  NextTradingDay(d) \in Nat /\ NextTradingDay(d) > d
<1> DEFINE T == {e \in d + 1..Horizon + 1 : e \notin Weekend}
<1>1. d \in Nat /\ d <= Horizon
  BY Calendars
<1>2. T \subseteq Nat /\ \A e \in T : e > d
  BY <1>1, Calendars
<1>3. Horizon + 1 \in T
  BY <1>1, Calendars
<1> HIDE DEF T
<1>4. Min(T) \in T
  BY <1>2, <1>3, MinOfNumbers
<1>5. QED
  BY <1>2, <1>4 DEF NextTradingDay, T

\* The records that stand for rows.
LEMMA RowFields ==
  /\ \A k, u : Named(k, u).kind = k /\ Named(k, u).under = u
  /\ \A d, i, o, v : /\ Candle(d, i, o, v).day = d /\ Candle(d, i, o, v).inst = i
                     /\ Candle(d, i, o, v).of = o /\ Candle(d, i, o, v).ver = v
BY DEF Named, Candle

LEMMA ContractFields == \A r \in Contracts : r.kind \in {"future", "option"} /\ r.expiry \in Nat
BY MarketSyncAssumption

\* A file lists what the exchange knows, a missing one nothing.
LEMMA FileRows ==
  ASSUME NEW d \in Days, NEW v \in 0..2
  PROVE  /\ FORows(d, v) \subseteq Contracts
         /\ IndexRows(d, v) \subseteq Indices /\ CMRows(d, v) \subseteq Stocks
<1>1. v = 0 \/ v \in Versions
  BY DEF Versions
<1>2. v \in Versions => /\ FOListing[d][v] \subseteq Contracts
                        /\ IndexListing[d][v] \subseteq Indices /\ CMListing[d][v] \subseteq Stocks
  BY MarketSyncAssumption DEF Versions
<1>3. QED
  BY <1>1, <1>2 DEF FORows, IndexRows, CMRows

\* While an underlying has a future that has not expired, it has a near month.
LEMMA NearMonthExists ==
  ASSUME NEW d \in Days, NEW rows \in SUBSET Contracts, NEW f \in Futures(rows), f.expiry >= d
  PROVE  \E g \in NearMonths(d, rows) : g.under = f.under
<1> DEFINE Live == {g \in Futures(rows) : g.under = f.under /\ g.expiry >= d}
           T == {g.expiry : g \in Live}
<1>1. \A g \in Futures(rows) : g.expiry \in Nat
  BY ContractFields DEF Futures
<1>2. T \subseteq Nat /\ f.expiry \in T
  BY <1>1
<1> HIDE DEF T
<1>3. PICK m \in T : \A n \in T : m <= n
  BY <1>2, LeastNumber
<1>4. PICK g \in Live : g.expiry = m
  BY <1>3 DEF T
<1>5. \A h \in Live : g.expiry <= h.expiry
  BY <1>3, <1>4 DEF T
<1>6. g \in NearMonths(d, rows)
  BY <1>4, <1>5 DEF NearMonths
<1>7. QED
  BY <1>4, <1>6

\* What the files list are instruments of the exchange.
LEMMA ListedIsTyped ==
  ASSUME TypeOK, job.day \in Days
  PROVE  ListedInstruments \subseteq AllInstruments
<1> DEFINE fo == FORows(job.day, job.files["fo"])
           ix == IndexRows(job.day, job.files["index"])
           cm == CMRows(job.day, job.files["cm"])
<1>1. /\ job.files["fo"] \in 0..2 /\ job.files["index"] \in 0..2 /\ job.files["cm"] \in 0..2
  BY DEF TypeOK, Files
<1>2. fo \subseteq Contracts /\ ix \subseteq Indices /\ cm \subseteq Stocks
  BY <1>1, FileRows
<1> HIDE DEF fo, ix, cm
<1>3. Futures(fo) \subseteq Futures(Contracts)
  BY <1>2 DEF Futures
<1>4. ContinuousInstruments(fo) \subseteq ContinuousInstruments(Contracts)
  BY <1>3 DEF ContinuousInstruments
<1>5. IndexInstruments(ix) \subseteq IndexInstruments(Indices)
  BY <1>2 DEF IndexInstruments
<1>6. CMInstruments(cm, Underlyings(fo)) \subseteq CMInstruments(Stocks, Stocks)
  BY <1>2 DEF CMInstruments
<1>7. QED
  BY <1>2, <1>4, <1>5, <1>6 DEF ListedInstruments, AllInstruments, fo, ix, cm
-----------------------------------------------------------------------------
(* The batch of a day *)

\* The rows of the F&O file whose instruments are known, and the underlyings
\* whose stocks are.
BatchRows == FORows(job.day, FORead) \cap instruments
BatchUnderlyings ==
  Underlyings(FORows(job.day, job.files["fo"]))
    \cup {u \in StoredUnderlyings : Named("equity", u) \in instruments}

\* Which F&O rows and underlyings those are when the candles are stored.
LEMMA KnownRows ==
  ASSUME SyncInv, job.pc = "candles"
  PROVE  LET d == job.day
             fo == FORows(d, job.files["fo"])
         IN /\ d \in Days /\ FORead \in Versions /\ \A f \in Files : job.files[f] \in Versions
            /\ BatchRows \subseteq Contracts /\ BatchRows \subseteq FORows(d, FORead)
            /\ fo # {} => FORead = job.files["fo"] /\ BatchRows = fo
            /\ Underlyings(fo) \subseteq StoredUnderlyings
            /\ BatchUnderlyings \subseteq Underlyings(Contracts)
            /\ \A f \in Futures(BatchRows) : Named("continuous", f.under) \in instruments
<1> DEFINE d == job.day
           v == job.files["fo"]
           fo == FORows(d, v)
<1>1. /\ d \in Days /\ v \in Versions /\ job.files["index"] \in Versions
      /\ job.files["cm"] \in Versions /\ job.again \in 0..2
      /\ ListedInstruments \subseteq instruments /\ instruments \subseteq AllInstruments
      /\ fo # {} => job.again = 0
  BY DEF SyncInv, JobOK, TypeOK
<1>2. \A f \in Files : job.files[f] \in Versions
  BY <1>1 DEF Files
<1>3. FORead \in Versions /\ (fo # {} => FORead = v)
  BY <1>1 DEF FORead, Versions
<1>4. v \in 0..2 /\ FORead \in 0..2
  BY <1>1, <1>3 DEF Versions
<1>5. fo \subseteq Contracts /\ FORows(d, FORead) \subseteq Contracts
  BY <1>1, <1>4, FileRows
<1>6. fo \subseteq instruments
  BY <1>1 DEF ListedInstruments
<1> HIDE DEF d, v, fo
<1>7. BatchRows = FORows(d, FORead) \cap instruments
  BY DEF BatchRows, d
<1>8. fo # {} => BatchRows = fo
  BY <1>3, <1>6, <1>7 DEF fo
<1>9. Underlyings(fo) \subseteq StoredUnderlyings
  <2>1. \A f \in fo : f \in instruments /\ f.kind \in NFOKinds
    BY <1>5, <1>6, ContractFields DEF NFOKinds
  <2>2. QED
    BY <2>1 DEF Underlyings, StoredUnderlyings
<1>10. StoredUnderlyings \subseteq Underlyings(Contracts)
  <2>1. SUFFICES ASSUME NEW i \in instruments, i.kind \in NFOKinds, i.under # NoName
                 PROVE  i.under \in Underlyings(Contracts)
    BY DEF StoredUnderlyings
  <2>2. \/ i \in Contracts \/ i \in ContinuousInstruments(Contracts)
        \/ i \in IndexInstruments(Indices) \/ i \in CMInstruments(Stocks, Stocks)
    BY <1>1, <2>1 DEF AllInstruments
  <2>3. CASE i \in Contracts
    BY <2>1, <2>3 DEF Underlyings
  <2>4. CASE i \in ContinuousInstruments(Contracts)
    BY <2>1, <2>4, RowFields DEF ContinuousInstruments, Futures, Underlyings
  <2>5. CASE i \in IndexInstruments(Indices)
    BY <2>1, <2>5, RowFields DEF IndexInstruments, NFOKinds
  <2>6. CASE i \in CMInstruments(Stocks, Stocks)
    BY <2>1, <2>6, RowFields DEF CMInstruments, NFOKinds
  <2>7. QED
    BY <2>2, <2>3, <2>4, <2>5, <2>6
<1>11. BatchUnderlyings \subseteq Underlyings(Contracts)
  BY <1>9, <1>10 DEF BatchUnderlyings, fo, d, v
<1>12. \A f \in Futures(BatchRows) : Named("continuous", f.under) \in instruments
  BY <1>7 DEF SyncInv, SeriesKnown, Futures
<1>13. QED
  BY <1>1, <1>2, <1>3, <1>5, <1>7, <1>8, <1>9, <1>11, <1>12 DEF d, v, fo

\* The batch is that of three files, without the F&O rows and stocks that the
\* instruments do not know.
LEMMA WholeBatch ==
  ASSUME SyncInv, job.pc = "candles"
  PROVE  /\ DayCandles = FOCandles(job.day, BatchRows, FORead)
                           \cup IndexCandles(job.day, job.files["index"])
                           \cup CMCandles(job.day, job.files["cm"], BatchUnderlyings)
         /\ \A c \in DayCandles : c.inst \in instruments
<1> DEFINE d == job.day
           v == FORead
           w == job.files["index"]
           x == job.files["cm"]
           fo == FORows(d, job.files["fo"])
           rows == BatchRows
           U == StoredUnderlyings
           V == BatchUnderlyings
<1>1. /\ ListedInstruments \subseteq instruments
      /\ ListedInstruments = fo \cup ContinuousInstruments(fo)
            \cup IndexInstruments(IndexRows(d, w)) \cup CMInstruments(CMRows(d, x), Underlyings(fo))
  BY DEF SyncInv, JobOK, ListedInstruments
<1>2. /\ rows \subseteq instruments /\ Underlyings(fo) \subseteq U
      /\ \A f \in Futures(rows) : Named("continuous", f.under) \in instruments
  BY KnownRows DEF BatchRows
<1>3. V = Underlyings(fo) \cup {u \in U : Named("equity", u) \in instruments}
  BY DEF BatchUnderlyings
<1>4. DayCandles = {c \in FOCandles(d, rows, v) \cup IndexCandles(d, w) \cup CMCandles(d, x, U) :
                      c.inst \in instruments}
  BY DEF DayCandles, BatchRows
<1> HIDE DEF d, v, w, x, fo, rows, U, V
<1>5. \A c \in FOCandles(d, rows, v) : c.inst \in instruments
  <2>1. NearMonths(d, rows) \subseteq Futures(rows)
    BY DEF NearMonths
  <2>2. QED
    BY <1>2, <2>1, RowFields DEF FOCandles
<1>6. \A c \in IndexCandles(d, w) : c.inst \in instruments
  BY <1>1, RowFields DEF IndexCandles, IndexInstruments
<1>7. \A c \in CMCandles(d, x, V) : c \in CMCandles(d, x, U) /\ c.inst \in instruments
  <2>1. SUFFICES ASSUME NEW s \in CMRows(d, x) \cap V
                 PROVE  s \in U /\ Named("equity", s) \in instruments
    BY RowFields DEF CMCandles
  <2>2. CASE s \in Underlyings(fo)
    BY <1>1, <1>2, <2>2 DEF CMInstruments
  <2>3. CASE s \in U /\ Named("equity", s) \in instruments
    BY <2>3
  <2>4. QED
    BY <1>3, <2>2, <2>3
<1>8. \A c \in CMCandles(d, x, U) : c.inst \in instruments => c \in CMCandles(d, x, V)
  <2>1. SUFFICES ASSUME NEW s \in CMRows(d, x) \cap U, Named("equity", s) \in instruments
                 PROVE  s \in V
    BY RowFields DEF CMCandles
  <2>2. QED
    BY <1>3, <2>1
<1> DEFINE whole == FOCandles(d, rows, v) \cup IndexCandles(d, w) \cup CMCandles(d, x, V)
<1>9. \A c : c \in DayCandles <=> c \in whole
  BY <1>4, <1>5, <1>6, <1>7, <1>8
<1>10. DayCandles = whole
  BY <1>9
<1>11. QED
  BY <1>4, <1>10 DEF d, v, w, x, rows, V

\* The candles of a day, by kind.
LEMMA BatchKinds ==
  ASSUME SyncInv, job.pc = "candles"
  PROVE  LET d == job.day
             v == FORead
             rows == BatchRows
         IN /\ \A f \in rows : Candle(d, f, f, v) \in DayCandles
            /\ \A f \in NearMonths(d, rows) :
                 Candle(d, Named("continuous", f.under), f, v) \in DayCandles
            /\ \A c \in DayCandles :
                 /\ c.day = d
                 /\ c.inst.kind = "future" => \E f \in rows : c = Candle(d, f, f, v)
                 /\ c.inst.kind = "continuous" =>
                      \E f \in NearMonths(d, rows) :
                        c = Candle(d, Named("continuous", f.under), f, v)
<1> DEFINE d == job.day
           v == FORead
           w == job.files["index"]
           x == job.files["cm"]
           rows == BatchRows
           V == BatchUnderlyings
<1>1. DayCandles = FOCandles(d, rows, v) \cup IndexCandles(d, w) \cup CMCandles(d, x, V)
  BY WholeBatch
<1>2. \A f \in rows : f.kind \in {"future", "option"}
  BY KnownRows, ContractFields
<1> HIDE DEF d, v, w, x, rows, V
<1>3. FOCandles(d, rows, v) = {Candle(d, f, f, v) : f \in rows}
        \cup {Candle(d, Named("continuous", f.under), f, v) : f \in NearMonths(d, rows)}
  BY DEF FOCandles
<1>4. /\ \A f \in rows : Candle(d, f, f, v) \in DayCandles
      /\ \A f \in NearMonths(d, rows) :
           Candle(d, Named("continuous", f.under), f, v) \in DayCandles
  BY <1>1, <1>3
<1>5. \A c \in IndexCandles(d, w) : c.day = d /\ c.inst.kind = "index"
  BY RowFields DEF IndexCandles
<1>6. \A c \in CMCandles(d, x, V) : c.day = d /\ c.inst.kind = "equity"
  BY RowFields DEF CMCandles
<1>7. ASSUME NEW c \in DayCandles
      PROVE  /\ c.day = d
             /\ c.inst.kind = "future" => \E f \in rows : c = Candle(d, f, f, v)
             /\ c.inst.kind = "continuous" =>
                  \E f \in NearMonths(d, rows) :
                    c = Candle(d, Named("continuous", f.under), f, v)
  <2>1. CASE \E f \in rows : c = Candle(d, f, f, v)
    BY <1>2, <2>1, RowFields
  <2>2. CASE \E f \in NearMonths(d, rows) : c = Candle(d, Named("continuous", f.under), f, v)
    BY <2>2, RowFields
  <2>3. CASE c \in IndexCandles(d, w)
    BY <1>5, <2>3
  <2>4. CASE c \in CMCandles(d, x, V)
    BY <1>6, <2>4
  <2>5. QED
    BY <1>1, <1>3, <2>1, <2>2, <2>3, <2>4
<1>8. QED
  BY <1>4, <1>7 DEF d, v, rows

\* What the files of SyncInstruments owe the day is in the batch.
LEMMA OwedIsOffered ==
  ASSUME SyncInv, job.pc = "candles"
  PROVE  OwedCandles(job.day, job.files) \subseteq DayCandles
<1> DEFINE d == job.day
           u == job.files["fo"]
           w == job.files["index"]
           x == job.files["cm"]
           fo == FORows(d, u)
<1>1. DayCandles = FOCandles(d, BatchRows, FORead) \cup IndexCandles(d, w)
                     \cup CMCandles(d, x, BatchUnderlyings)
  BY WholeBatch
<1>2. fo # {} => FORead = u /\ BatchRows = fo
  BY KnownRows
<1>3. Underlyings(fo) \subseteq BatchUnderlyings
  BY DEF BatchUnderlyings
<1>4. OwedCandles(d, job.files) = FOCandles(d, fo, u) \cup IndexCandles(d, w)
                                    \cup CMCandles(d, x, Underlyings(fo))
  BY DEF OwedCandles
<1> HIDE DEF d, u, w, x, fo
<1>5. FOCandles(d, fo, u) \subseteq FOCandles(d, BatchRows, FORead)
  <2>1. CASE fo = {}
    <3>1. NearMonths(d, fo) = {}
      BY <2>1 DEF NearMonths, Futures
    <3>2. QED
      BY <2>1, <3>1 DEF FOCandles
  <2>2. CASE fo # {}
    BY <1>2, <2>2
  <2>3. QED
    BY <2>1, <2>2
<1>6. CMCandles(d, x, Underlyings(fo)) \subseteq CMCandles(d, x, BatchUnderlyings)
  BY <1>3 DEF CMCandles
<1>7. QED
  BY <1>1, <1>4, <1>5, <1>6 DEF d
-----------------------------------------------------------------------------
(* The insert *)

\* What ON CONFLICT DO NOTHING leaves: every row of before, and for every row
\* of the batch one with its key.
LEMMA InsertedRows ==
  ASSUME NEW batch
  PROVE  /\ candles \subseteq Inserted(batch)
         /\ \A c \in Inserted(batch) :
              c \in candles \/ (c \in batch /\ \A e \in candles : ~SameKey(c, e))
         /\ \A c \in batch : \E e \in Inserted(batch) : SameKey(c, e)
         /\ \A c \in batch : (\A e \in candles : ~SameKey(c, e)) => c \in Inserted(batch)
<1>1. \A c \in batch : SameKey(c, c)
  BY DEF SameKey
<1>2. QED
  BY <1>1 DEF Inserted

\* A day that is stored, again or for the first time, has what its files owe it
\* and its continuous series.
LEMMA InsertKeepsSeries ==
  ASSUME SyncInv, job.pc = "candles", candles' = Inserted(DayCandles)
  PROVE  /\ SeriesComplete' /\ ContinuousAgreesWithContracts'
         /\ \A f \in Files : job.files[f] # 0
         /\ \A c \in OwedCandles(job.day, job.files) : \E e \in candles' : SameKey(c, e)
<1> DEFINE d == job.day
           v == FORead
           rows == BatchRows
           B == DayCandles
           I == Inserted(B)
<1>1. /\ candles \subseteq I
      /\ \A c \in I : c \in candles \/ (c \in B /\ \A e \in candles : ~SameKey(c, e))
      /\ \A c \in B : \E e \in I : SameKey(c, e)
      /\ \A c \in B : (\A e \in candles : ~SameKey(c, e)) => c \in I
  BY InsertedRows
<1>2. /\ \A f \in rows : Candle(d, f, f, v) \in B
      /\ \A f \in NearMonths(d, rows) : Candle(d, Named("continuous", f.under), f, v) \in B
      /\ \A c \in B :
           /\ c.day = d
           /\ c.inst.kind = "future" => \E f \in rows : c = Candle(d, f, f, v)
           /\ c.inst.kind = "continuous" =>
                \E f \in NearMonths(d, rows) : c = Candle(d, Named("continuous", f.under), f, v)
  BY BatchKinds
<1>3. d \in Days /\ rows \subseteq Contracts /\ \A f \in Files : job.files[f] \in Versions
  BY KnownRows
<1>4. candles' = I /\ OwedCandles(d, job.files) \subseteq B
  BY OwedIsOffered
<1> HIDE DEF d, v, rows, B, I
<1>5. SeriesComplete'
  <2>1. SUFFICES ASSUME NEW e \in I, e.inst.kind = "future", e.inst.under # NoName,
                        e.inst.expiry >= e.day
                 PROVE  \E c \in I : c.inst = Named("continuous", e.inst.under) /\ c.day = e.day
    BY <1>4 DEF SeriesComplete
  <2>2. CASE e \in candles
    BY <1>1, <2>1, <2>2 DEF SyncInv, SeriesComplete
  <2>3. CASE e \in B
    <3>1. PICK f \in rows : e = Candle(d, f, f, v)
      BY <1>2, <2>1, <2>3
    <3>2. e.inst = f /\ e.day = d
      BY <3>1, RowFields
    <3>3. f \in Futures(rows) /\ f.expiry >= d
      BY <2>1, <3>2 DEF Futures
    <3>4. PICK g \in NearMonths(d, rows) : g.under = f.under
      BY <1>3, <3>3, NearMonthExists
    <3>5. Candle(d, Named("continuous", g.under), g, v) \in B
      BY <1>2, <3>4
    <3>6. PICK c \in I : SameKey(Candle(d, Named("continuous", g.under), g, v), c)
      BY <1>1, <3>5
    <3>7. c.inst = Named("continuous", g.under) /\ c.day = d
      BY <3>6, RowFields DEF SameKey
    <3>8. QED
      BY <3>2, <3>4, <3>7
  <2>4. QED
    BY <1>1, <2>2, <2>3
<1>6. ContinuousAgreesWithContracts'
  <2>1. SUFFICES ASSUME NEW c \in I, c.inst.kind = "continuous"
                 PROVE  /\ c.of.kind = "future" /\ c.of.under = c.inst.under
                        /\ c.of.expiry >= c.day
                        /\ \E e \in I : e.inst = c.of /\ e.day = c.day /\ e.ver = c.ver
    BY <1>4 DEF ContinuousAgreesWithContracts
  <2>2. CASE c \in candles
    BY <1>1, <2>1, <2>2 DEF SyncInv, ContinuousAgreesWithContracts
  <2>3. CASE c \in B /\ \A e \in candles : ~SameKey(c, e)
    <3>1. PICK f \in NearMonths(d, rows) : c = Candle(d, Named("continuous", f.under), f, v)
      BY <1>2, <2>1, <2>3
    <3>2. f \in rows /\ f.kind = "future" /\ f.under # NoName /\ f.expiry >= d
      BY <3>1 DEF NearMonths, Futures
    <3>3. c.of = f /\ c.inst = Named("continuous", f.under) /\ c.day = d /\ c.ver = v
      BY <3>1, RowFields
    <3> DEFINE e == Candle(d, f, f, v)
    <3>4. e \in B /\ e.inst = f /\ e.day = d /\ e.ver = v
      BY <1>2, <3>2, RowFields
    <3> HIDE DEF e
    <3>5. \A o \in candles : ~SameKey(e, o)
      <4>1. SUFFICES ASSUME NEW o \in candles, SameKey(e, o) PROVE FALSE
        OBVIOUS
      <4>2. o.inst = f /\ o.day = d
        BY <3>4, <4>1 DEF SameKey
      <4>3. PICK p \in candles : p.inst = Named("continuous", f.under) /\ p.day = d
        BY <3>2, <4>2 DEF SyncInv, SeriesComplete
      <4>4. SameKey(c, p)
        BY <3>3, <4>3 DEF SameKey
      <4>5. QED
        BY <2>3, <4>4
    <3>6. e \in I
      BY <1>1, <3>4, <3>5
    <3>7. QED
      BY <3>2, <3>3, <3>4, <3>6, RowFields
  <2>4. QED
    BY <1>1, <2>2, <2>3
<1>7. \A f \in Files : job.files[f] # 0
  BY <1>3 DEF Versions
<1>8. \A c \in OwedCandles(d, job.files) : \E e \in candles' : SameKey(c, e)
  BY <1>1, <1>4
<1>9. QED
  BY <1>5, <1>6, <1>7, <1>8 DEF d

\* The rows that are inserted are candles of instruments of the exchange.
LEMMA InsertedIsTyped ==
  ASSUME SyncInv, job.pc = "candles"
  PROVE  Inserted(DayCandles) \subseteq
           [inst : AllInstruments, day : Days, of : AllInstruments, ver : Versions]
<1> DEFINE d == job.day
           v == FORead
           w == job.files["index"]
           x == job.files["cm"]
           rows == BatchRows
           V == BatchUnderlyings
           AllCandles == [inst : AllInstruments, day : Days, of : AllInstruments, ver : Versions]
<1>1. DayCandles = FOCandles(d, rows, v) \cup IndexCandles(d, w) \cup CMCandles(d, x, V)
  BY WholeBatch
<1>2. \A c \in DayCandles : c.inst \in AllInstruments
  BY WholeBatch DEF SyncInv, TypeOK
<1>3. d \in Days /\ v \in Versions /\ w \in Versions /\ x \in Versions
  BY KnownRows DEF Files
<1>4. rows \subseteq AllInstruments
  BY KnownRows DEF AllInstruments
<1> HIDE DEF d, v, w, x, rows, V
<1>5. ASSUME NEW i, NEW o \in AllInstruments, NEW y \in Versions, i \in AllInstruments
      PROVE  Candle(d, i, o, y) \in AllCandles
  BY <1>3, <1>5 DEF Candle
<1>6. ASSUME NEW c \in DayCandles PROVE c \in AllCandles
  <2>1. CASE \E f \in rows : c = Candle(d, f, f, v)
    BY <1>3, <1>4, <1>5, <2>1
  <2>2. CASE \E f \in NearMonths(d, rows) : c = Candle(d, Named("continuous", f.under), f, v)
    <3>1. PICK f \in NearMonths(d, rows) : c = Candle(d, Named("continuous", f.under), f, v)
      BY <2>2
    <3>2. f \in AllInstruments
      BY <1>4, <3>1 DEF NearMonths, Futures
    <3>3. Named("continuous", f.under) \in AllInstruments
      BY <1>2, <3>1, RowFields
    <3>4. QED
      BY <1>3, <1>5, <3>1, <3>2, <3>3
  <2>3. CASE c \in IndexCandles(d, w)
    <3>1. PICK s \in IndexRows(d, w) : c = Candle(d, Named("index", s), Named("index", s), w)
      BY <2>3 DEF IndexCandles
    <3>2. Named("index", s) \in AllInstruments
      BY <1>2, <3>1, RowFields
    <3>3. QED
      BY <1>3, <1>5, <3>1, <3>2
  <2>4. CASE c \in CMCandles(d, x, V)
    <3>1. PICK s \in CMRows(d, x) : c = Candle(d, Named("equity", s), Named("equity", s), x)
      BY <2>4 DEF CMCandles
    <3>2. Named("equity", s) \in AllInstruments
      BY <1>2, <3>1, RowFields
    <3>3. QED
      BY <1>3, <1>5, <3>1, <3>2
  <2>5. QED
    BY <1>1, <2>1, <2>2, <2>3, <2>4 DEF FOCandles
<1>7. candles \subseteq AllCandles
  BY DEF SyncInv, TypeOK
<1>8. QED
  BY <1>6, <1>7 DEF Inserted
-----------------------------------------------------------------------------
(* The steps *)

JobType == [pc : Stages, day : 0..Horizon, to : 0..Horizon, weekends : BOOLEAN,
            files : [Files -> 0..2], again : 0..2, outcome : Statuses, killed : BOOLEAN]
Rows == [day : Days, status : Statuses, files : [Files -> 0..2]]

LEMMA NoFilesTyped == NoFiles \in [Files -> 0..2]
BY DEF NoFiles

LEMMA IdleJob == Idle \in JobType /\ Idle.pc = "off"
<1>1. 0 \in 0..Horizon
  BY Calendars
<1>2. QED
  BY <1>1, NoFilesTyped DEF Idle, JobType, Stages, Statuses

\* The job that gives up its day.
LEMMA RunFailsJob ==
  ASSUME job \in JobType
  PROVE  /\ RunFails(job) \in JobType
         /\ RunFails(job).pc = "complete" /\ RunFails(job).outcome = "FAILED"
         /\ RunFails(job).day = job.day
<1>1. PICK j : j = RunFails(job)
  OBVIOUS
<1>2. j = [pc |-> "complete", day |-> job.day, to |-> job.to, weekends |-> job.weekends,
           files |-> NoFiles, again |-> 0, outcome |-> "FAILED", killed |-> job.killed]
  BY <1>1 DEF RunFails, JobType
<1>3. /\ job.day \in 0..Horizon /\ job.to \in 0..Horizon /\ job.weekends \in BOOLEAN
      /\ job.killed \in BOOLEAN
  BY DEF JobType
<1>4. j \in JobType /\ j.pc = "complete" /\ j.outcome = "FAILED" /\ j.day = job.day
  BY <1>2, <1>3, NoFilesTyped DEF JobType, Stages, Statuses
<1>5. QED
  BY <1>1, <1>4

\* Steps of the world and of starting and walking on leave the tables alone.
LEMMA TablesKept ==
  ASSUME SyncInv, UNCHANGED tables
  PROVE  /\ SeriesKnown' /\ SeriesComplete' /\ CompletedMeansStored'
         /\ ContinuousAgreesWithContracts'
         /\ runs' = runs /\ instruments' = instruments /\ candles' = candles
BY DEF tables, SyncInv, SeriesKnown, SeriesComplete, CompletedMeansStored, DayStored,
       ContinuousAgreesWithContracts

LEMMA WorldStep ==
  ASSUME SyncInv, Tick \/ Publish \/ Revise \/ UNCHANGED vars
  PROVE  SyncInv'
<1>1. UNCHANGED tables /\ job' = job /\ starts' = starts
  BY DEF Tick, Publish, Revise, vars, tables
<1>2. /\ SeriesKnown' /\ SeriesComplete' /\ CompletedMeansStored'
      /\ ContinuousAgreesWithContracts'
      /\ runs' = runs /\ instruments' = instruments /\ candles' = candles
  BY <1>1, TablesKept
<1>3. JobOK'
  BY <1>1, <1>2 DEF SyncInv, JobOK, ListedInstruments, DayStored
<1>4. today' \in Days
  BY Calendars DEF Tick, Publish, Revise, vars, SyncInv, TypeOK
<1>5. archive' \in [Days -> [Files -> 0..2]]
  <2>1. ASSUME NEW d \in Days, NEW f \in Files, NEW n \in 0..2,
               archive' = [archive EXCEPT ![d][f] = n]
        PROVE  archive' \in [Days -> [Files -> 0..2]]
    BY <2>1 DEF SyncInv, TypeOK
  <2>2. CASE Publish
    BY <2>1, <2>2, Calendars DEF Publish, SyncInv, TypeOK
  <2>3. CASE Revise
    <3>1. PICK d \in Days, f \in Files : archive' = [archive EXCEPT ![d][f] = 2]
      BY <2>3, MarketSyncAssumption DEF Revise
    <3>2. 2 \in 0..2
      OBVIOUS
    <3>3. QED
      BY <2>1, <3>1, <3>2
  <2>4. QED
    BY <2>2, <2>3 DEF Tick, vars, SyncInv, TypeOK
<1>6. TypeOK'
  BY <1>1, <1>2, <1>4, <1>5 DEF SyncInv, TypeOK
<1>7. QED
  BY <1>2, <1>3, <1>6 DEF SyncInv

LEMMA StartStep ==
  ASSUME SyncInv, StartCatchUp \/ StartBackfill \/ StartSingleDay
  PROVE  SyncInv'
<1>1. PICK from, to \in Days, weekends \in BOOLEAN : StartAt(from, to, weekends)
  <2>1. today \in Days /\ 1..today \subseteq Days
    BY Calendars DEF SyncInv, TypeOK
  <2>2. CASE StartCatchUp
    <3>1. LastSynced \in Days /\ LastSynced < today
      BY <2>2, LastSyncedIsADay DEF StartCatchUp, SyncInv
    <3>2. LastSynced + 1 \in Days
      BY <2>1, <3>1, Calendars
    <3>3. QED
      BY <2>1, <2>2, <3>2 DEF StartCatchUp
  <2>3. CASE StartBackfill
    BY <2>1, <2>3 DEF StartBackfill
  <2>4. CASE StartSingleDay
    BY <2>1, <2>4 DEF StartSingleDay
  <2>5. QED
    BY <2>2, <2>3, <2>4
<1>2. /\ UNCHANGED <<today, archive, tables>> /\ starts < MaxStarts /\ starts' = starts + 1
      /\ job' = [Idle EXCEPT !.pc = "create", !.day = from, !.to = to, !.weekends = weekends]
  BY <1>1 DEF StartAt
<1>3. /\ SeriesKnown' /\ SeriesComplete' /\ CompletedMeansStored'
      /\ ContinuousAgreesWithContracts'
      /\ runs' = runs /\ instruments' = instruments /\ candles' = candles
  BY <1>2, TablesKept
<1>4. job' = [pc |-> "create", day |-> from, to |-> to, weekends |-> weekends,
              files |-> NoFiles, again |-> 0, outcome |-> "RUNNING", killed |-> FALSE]
  BY <1>2 DEF Idle
<1>5. from \in 0..Horizon /\ to \in 0..Horizon
  BY Calendars
<1>6. NoFiles \in [Files -> 0..2]
  BY NoFilesTyped
<1>7. job' \in JobType
  BY <1>4, <1>5, <1>6 DEF JobType, Stages, Statuses
<1>8. starts' \in 0..MaxStarts
  BY <1>2, Calendars DEF SyncInv, TypeOK
<1>9. TypeOK'
  BY <1>2, <1>3, <1>7, <1>8 DEF SyncInv, TypeOK, JobType
<1>10. JobOK'
  BY <1>4 DEF JobOK, HasRow, BeforeCandles
<1>11. QED
  BY <1>3, <1>9, <1>10 DEF SyncInv

LEMMA CreateRunStep ==
  ASSUME SyncInv, CreateRun
  PROVE  SyncInv'
<1>1. /\ job.pc = "create" /\ today' = today /\ archive' = archive
      /\ instruments' = instruments /\ candles' = candles /\ starts' = starts
  BY DEF CreateRun
<1> DEFINE row == [day |-> job.day, status |-> "RUNNING", files |-> NoFiles]
<1>2. \/ /\ runs' = Append(runs, row)
         /\ job' = [job EXCEPT !.pc = "fo"] \/ job' = [job EXCEPT !.pc = "advance"]
      \/ runs' = runs /\ job' = [job EXCEPT !.pc = "advance"]
  BY DEF CreateRun
<1>3. job \in JobType /\ job.day \in Days /\ runs \in Seq(Rows) /\ job.again = 0
  BY <1>1 DEF SyncInv, TypeOK, JobType, Rows, JobOK, BeforeCandles
<1>4. row \in Rows /\ row.day = job.day /\ row.status = "RUNNING"
  BY <1>3, NoFilesTyped DEF Statuses, Rows
<1> HIDE DEF row
<1>5. /\ Append(runs, row) \in Seq(Rows)
      /\ Append(runs, row) # <<>> /\ Len(Append(runs, row)) = Len(runs) + 1
      /\ Append(runs, row)[Len(runs) + 1] = row
      /\ \A r \in DOMAIN Append(runs, row) :
           Append(runs, row)[r] = row \/ (r \in DOMAIN runs /\ Append(runs, row)[r] = runs[r])
  BY <1>3, <1>4
<1>6. /\ job' \in JobType /\ job'.day = job.day /\ job'.again = 0
      /\ job'.pc = "advance" \/ (job'.pc = "fo" /\ runs' = Append(runs, row))
  BY <1>2, <1>3 DEF JobType, Stages
<1>7. TypeOK'
  BY <1>1, <1>2, <1>3, <1>5, <1>6 DEF SyncInv, TypeOK, JobType, Rows
<1>8. JobOK'
  BY <1>3, <1>4, <1>5, <1>6 DEF JobOK, HasRow, BeforeCandles
<1>9. CompletedMeansStored'
  <2>1. CASE runs' = runs
    BY <1>1, <2>1, TablesKept DEF tables
  <2>2. CASE runs' = Append(runs, row)
    <3>1. SUFFICES ASSUME NEW r \in DOMAIN runs, runs[r].status = "COMPLETED",
                          runs'[r] = runs[r]
                   PROVE  DayStored(runs[r].day, runs[r].files)'
      BY <1>4, <1>5, <2>2 DEF CompletedMeansStored
    <3>2. DayStored(runs[r].day, runs[r].files)
      BY <3>1 DEF SyncInv, CompletedMeansStored
    <3>3. QED
      BY <1>1, <3>1, <3>2 DEF DayStored
  <2>3. QED
    BY <1>2, <2>1, <2>2
<1>10. QED
  BY <1>1, <1>7, <1>8, <1>9 DEF SyncInv, SeriesKnown, SeriesComplete,
                                ContinuousAgreesWithContracts

LEMMA FetchStep ==
  ASSUME SyncInv, FetchFO \/ FetchIndex \/ FetchCM
  PROVE  SyncInv'
<1>1. PICK file \in Files, next \in {"index", "cm", "upsert"} :
        /\ Fetch(file, next)
        /\ <<file, next>> \in {<<"fo", "index">>, <<"index", "cm">>, <<"cm", "upsert">>}
  BY DEF FetchFO, FetchIndex, FetchCM, Files
<1> DEFINE ver == archive[job.day][file]
           files == [job.files EXCEPT ![file] = ver]
<1>2. /\ job.pc = file /\ UNCHANGED <<today, archive, tables, starts>>
      /\ \/ /\ ver # 0
            /\ job' = [job EXCEPT !.files = files, !.pc = next]
         \/ job' = RunFails(job)
  <2>1. Fetch(file, next)
    BY <1>1
  <2>2. job \in JobType
    BY DEF SyncInv, TypeOK, JobType
  <2>3. QED
    BY <2>1, <2>2 DEF Fetch, MissingFile, JobType
<1>3. /\ SeriesKnown' /\ SeriesComplete' /\ CompletedMeansStored'
      /\ ContinuousAgreesWithContracts'
      /\ runs' = runs /\ instruments' = instruments /\ candles' = candles
  BY <1>2, TablesKept
<1>4. job \in JobType /\ job.day \in Days /\ job.files \in [Files -> 0..2]
      /\ runs # <<>> /\ runs[Len(runs)].day = job.day /\ job.again = 0
  BY <1>2 DEF SyncInv, TypeOK, JobType, JobOK, HasRow, BeforeCandles, Files
<1>5. ver \in 0..2 /\ files \in [Files -> 0..2]
      /\ files[file] = ver /\ \A f \in Files \ {file} : files[f] = job.files[f]
  BY <1>4 DEF SyncInv, TypeOK
<1> HIDE DEF ver, files
<1>6. CASE ver # 0 /\ job' = [job EXCEPT !.files = files, !.pc = next]
  <2>1. ver \in Versions
    BY <1>5, <1>6 DEF Versions
  <2>2. job' \in JobType /\ job'.pc = next /\ job'.files = files /\ job'.day = job.day
        /\ job'.again = 0
    BY <1>4, <1>5, <1>6 DEF JobType, Stages
  <2>3. JobOK'
    BY <1>1, <1>2, <1>3, <1>4, <1>5, <2>1, <2>2 DEF SyncInv, JobOK, HasRow, BeforeCandles, Files
  <2>4. TypeOK'
    BY <1>2, <1>3, <2>2 DEF SyncInv, TypeOK, JobType
  <2>5. QED
    BY <1>3, <2>3, <2>4 DEF SyncInv
<1>7. CASE job' = RunFails(job)
  <2>1. /\ job' \in JobType /\ job'.pc = "complete" /\ job'.outcome = "FAILED"
        /\ job'.day = job.day
    BY <1>4, <1>7, RunFailsJob
  <2>2. JobOK' /\ TypeOK'
    BY <1>2, <1>3, <1>4, <2>1 DEF SyncInv, JobOK, HasRow, BeforeCandles, TypeOK, JobType
  <2>3. QED
    BY <1>3, <2>2 DEF SyncInv
<1>8. QED
  BY <1>2, <1>6, <1>7

LEMMA UpsertStep ==
  ASSUME SyncInv, UpsertInstruments
  PROVE  SyncInv'
<1> DEFINE fo == FORows(job.day, job.files["fo"])
           ix == IndexRows(job.day, job.files["index"])
           cm == CMRows(job.day, job.files["cm"])
<1>1. /\ job.pc = "upsert" /\ UNCHANGED <<today, archive, candles, runs, starts>>
      /\ \/ /\ instruments' = instruments \cup ListedInstruments
            /\ \/ fo = {} /\ job' = [job EXCEPT !.pc = "again"]
               \/ fo # {} /\ job' = [job EXCEPT !.pc = "candles"]
               \/ job' = RunFails(job)
         \/ instruments' = instruments /\ job' = RunFails(job)
  BY DEF UpsertInstruments
<1>2. /\ job \in JobType /\ job.day \in Days /\ runs # <<>> /\ runs[Len(runs)].day = job.day
      /\ job.files["fo"] \in Versions /\ job.files["index"] \in Versions
      /\ job.files["cm"] \in Versions /\ job.again = 0
  BY <1>1 DEF SyncInv, TypeOK, JobType, JobOK, HasRow, BeforeCandles
<1>3. ListedInstruments = fo \cup ContinuousInstruments(fo) \cup IndexInstruments(ix)
                            \cup CMInstruments(cm, Underlyings(fo))
  BY DEF ListedInstruments
<1>4. ix \subseteq Indices /\ cm \subseteq Stocks
  BY <1>2, FileRows DEF Versions
<1>5. /\ RunFails(job) \in JobType /\ RunFails(job).pc = "complete"
      /\ RunFails(job).outcome = "FAILED" /\ RunFails(job).day = job.day
  BY <1>2, RunFailsJob
<1>6. /\ job' \in JobType /\ job'.day = job.day
      /\ \/ job'.pc = "complete" /\ job'.outcome = "FAILED"
         \/ /\ job'.pc = "candles" \/ (job'.pc = "again" /\ fo = {})
            /\ job'.files = job.files /\ job'.again = 0
            /\ instruments' = instruments \cup ListedInstruments
  BY <1>1, <1>2, <1>5 DEF JobType, Stages
<1>7. ListedInstruments \subseteq AllInstruments
  BY <1>2, ListedIsTyped DEF SyncInv
<1>8. TypeOK'
  BY <1>1, <1>6, <1>7 DEF SyncInv, TypeOK, JobType
<1>9. JobOK'
  <2>1. CASE job'.pc = "complete" /\ job'.outcome = "FAILED"
    BY <1>1, <1>2, <1>6, <2>1 DEF JobOK, HasRow, BeforeCandles
  <2>2. CASE /\ job'.pc = "candles" \/ (job'.pc = "again" /\ fo = {})
             /\ job'.files = job.files /\ job'.again = 0
             /\ instruments' = instruments \cup ListedInstruments
    <3>1. ListedInstruments' = ListedInstruments
      BY <1>6, <2>2 DEF ListedInstruments
    <3>2. FORows(job.day, job.files["fo"])' = fo
      BY <1>6, <2>2 DEF FORows
    <3>3. QED
      BY <1>1, <1>2, <1>6, <2>2, <3>1, <3>2 DEF JobOK, HasRow, BeforeCandles
  <2>3. QED
    BY <1>6, <2>1, <2>2
<1> HIDE DEF fo, ix, cm
<1>10. SeriesKnown'
  <2>1. SUFFICES ASSUME NEW i \in ListedInstruments, i.kind = "future", i.under # NoName
                 PROVE  Named("continuous", i.under) \in ListedInstruments
    BY <1>1 DEF SyncInv, SeriesKnown
  <2>2. i \in fo
    <3>1. i \notin ContinuousInstruments(fo)
      BY <2>1, RowFields DEF ContinuousInstruments
    <3>2. i \notin IndexInstruments(ix)
      BY <2>1, RowFields DEF IndexInstruments
    <3>3. i \notin CMInstruments(cm, Underlyings(fo))
      BY <2>1, RowFields DEF CMInstruments
    <3>4. QED
      BY <1>3, <2>1, <3>1, <3>2, <3>3
  <2>3. i \in Futures(fo)
    BY <2>1, <2>2 DEF Futures
  <2>4. Named("continuous", i.under) \in ContinuousInstruments(fo)
    BY <2>3 DEF ContinuousInstruments
  <2>5. QED
    BY <1>3, <2>4
<1>11. SeriesComplete' /\ CompletedMeansStored' /\ ContinuousAgreesWithContracts'
  BY <1>1 DEF SyncInv, SeriesComplete, CompletedMeansStored, DayStored,
              ContinuousAgreesWithContracts
<1>12. QED
  BY <1>8, <1>9, <1>10, <1>11 DEF SyncInv

LEMMA FetchAgainStep ==
  ASSUME SyncInv, FetchAgain
  PROVE  SyncInv'
<1> DEFINE ver == archive[job.day]["fo"]
<1>1. /\ job.pc = "again" /\ UNCHANGED <<today, archive, tables, starts>>
      /\ \/ ver # 0 /\ job' = [job EXCEPT !.again = ver, !.pc = "candles"]
         \/ job' = RunFails(job)
  BY DEF FetchAgain
<1>2. /\ job \in JobType /\ job.day \in Days /\ runs # <<>> /\ runs[Len(runs)].day = job.day
      /\ job.files["fo"] \in Versions /\ job.files["index"] \in Versions
      /\ job.files["cm"] \in Versions /\ ListedInstruments \subseteq instruments
      /\ FORows(job.day, job.files["fo"]) = {}
  BY <1>1 DEF SyncInv, TypeOK, JobType, JobOK, HasRow
<1>3. ver \in 0..2
  BY <1>2 DEF SyncInv, TypeOK, Files
<1>4. /\ SeriesKnown' /\ SeriesComplete' /\ CompletedMeansStored'
      /\ ContinuousAgreesWithContracts'
      /\ runs' = runs /\ instruments' = instruments /\ candles' = candles
  BY <1>1, TablesKept
<1> HIDE DEF ver
<1>5. CASE job' = [job EXCEPT !.again = ver, !.pc = "candles"]
  <2>1. /\ job' \in JobType /\ job'.pc = "candles" /\ job'.day = job.day
        /\ job'.files = job.files
    BY <1>2, <1>3, <1>5 DEF JobType, Stages
  <2>2. ListedInstruments' = ListedInstruments
    BY <2>1 DEF ListedInstruments
  <2>3. FORows(job.day, job.files["fo"])' = {}
    BY <1>2, <2>1 DEF FORows
  <2>4. JobOK'
    BY <1>2, <1>4, <2>1, <2>2, <2>3 DEF JobOK, HasRow, BeforeCandles
  <2>5. TypeOK'
    BY <1>1, <1>4, <2>1 DEF SyncInv, TypeOK, JobType
  <2>6. QED
    BY <1>4, <2>4, <2>5 DEF SyncInv
<1>6. CASE job' = RunFails(job)
  <2>1. /\ job' \in JobType /\ job'.pc = "complete" /\ job'.outcome = "FAILED"
        /\ job'.day = job.day
    BY <1>2, <1>6, RunFailsJob
  <2>2. JobOK' /\ TypeOK'
    BY <1>1, <1>2, <1>4, <2>1 DEF SyncInv, JobOK, HasRow, BeforeCandles, TypeOK, JobType
  <2>3. QED
    BY <1>4, <2>2 DEF SyncInv
<1>7. QED
  BY <1>1, <1>5, <1>6

LEMMA CandlesStep ==
  ASSUME SyncInv, SyncCandles
  PROVE  SyncInv'
<1>1. Inserted({}) = candles
  BY DEF Inserted
<1>2. /\ job.pc = "candles" /\ UNCHANGED <<today, archive, instruments, runs, starts>>
      /\ \/ /\ candles' = Inserted(DayCandles)
            /\ job' = DayDone \/ job' = RunFails(job)
         \/ candles' = candles /\ job' = RunFails(job)
  BY <1>1 DEF SyncCandles, NothingToStore, StoreCandles, InsertError
<1>3. /\ job \in JobType /\ job.day \in Days /\ runs # <<>> /\ runs[Len(runs)].day = job.day
  BY <1>2 DEF SyncInv, TypeOK, JobType, JobOK, HasRow
<1>4. /\ RunFails(job) \in JobType /\ RunFails(job).pc = "complete"
      /\ RunFails(job).outcome = "FAILED" /\ RunFails(job).day = job.day
  BY <1>3, RunFailsJob
<1>5. /\ DayDone \in JobType /\ DayDone.pc = "complete" /\ DayDone.day = job.day
      /\ DayDone.files = job.files
  BY <1>3 DEF DayDone, JobType, Stages, Statuses
<1>6. CASE candles' = Inserted(DayCandles)
  <2>1. /\ SeriesComplete' /\ ContinuousAgreesWithContracts'
        /\ \A f \in Files : job.files[f] # 0
        /\ \A c \in OwedCandles(job.day, job.files) : \E e \in candles' : SameKey(c, e)
    BY <1>2, <1>6, InsertKeepsSeries
  <2>2. candles' \subseteq [inst : AllInstruments, day : Days, of : AllInstruments, ver : Versions]
        /\ candles \subseteq candles'
    BY <1>2, <1>6, InsertedIsTyped, InsertedRows
  <2>3. TypeOK'
    BY <1>2, <1>4, <1>5, <1>6, <2>2 DEF SyncInv, TypeOK, JobType
  <2>4. JobOK'
    <3>1. CASE job' = DayDone
      <4>1. DayStored(job.day, job.files)'
        BY <1>5, <2>1, <3>1 DEF DayStored
      <4>2. QED
        BY <1>2, <1>3, <1>5, <3>1, <4>1 DEF JobOK, HasRow, BeforeCandles
    <3>2. CASE job' = RunFails(job)
      BY <1>2, <1>3, <1>4, <3>2 DEF JobOK, HasRow, BeforeCandles
    <3>3. QED
      BY <1>2, <3>1, <3>2
  <2>5. SeriesKnown' /\ CompletedMeansStored'
    BY <1>2, <2>2 DEF SyncInv, SeriesKnown, CompletedMeansStored, DayStored
  <2>6. QED
    BY <2>1, <2>3, <2>4, <2>5 DEF SyncInv
<1>7. CASE candles' = candles /\ job' = RunFails(job)
  <2>1. TypeOK' /\ JobOK'
    BY <1>2, <1>3, <1>4, <1>7 DEF SyncInv, TypeOK, JobType, JobOK, HasRow, BeforeCandles
  <2>2. UNCHANGED tables
    BY <1>2, <1>7 DEF tables
  <2>3. QED
    BY <2>1, <2>2, TablesKept DEF SyncInv
<1>8. QED
  BY <1>2, <1>6, <1>7

LEMMA CompleteRunStep ==
  ASSUME SyncInv, CompleteRun
  PROVE  SyncInv'
<1> DEFINE n == Len(runs)
           row == [runs[n] EXCEPT !.status = job.outcome, !.files = job.files]
<1>1. /\ job.pc = "complete" /\ UNCHANGED <<today, archive, instruments, candles, starts>>
      /\ job' = [job EXCEPT !.pc = "advance"]
      /\ \/ runs' = [runs EXCEPT ![n].status = job.outcome, ![n].files = job.files]
         \/ runs' = runs
  BY DEF CompleteRun
<1>2. /\ job \in JobType /\ job.day \in Days /\ runs # <<>> /\ runs[Len(runs)].day = job.day
      /\ runs \in Seq(Rows) /\ job.outcome \in Statuses /\ job.files \in [Files -> 0..2]
      /\ job.outcome = "COMPLETED" => DayStored(job.day, job.files)
  BY <1>1 DEF SyncInv, TypeOK, JobType, Rows, JobOK, HasRow
<1>3. job' \in JobType /\ job'.pc = "advance" /\ job'.day = job.day
  BY <1>1, <1>2 DEF JobType, Stages
<1>4. n \in DOMAIN runs /\ runs[n] \in Rows
  <2>1. n \in Nat /\ n # 0 /\ DOMAIN runs = 1..n
    BY <1>2
  <2>2. n \in 1..n
    BY <2>1
  <2>3. \A r \in 1..Len(runs) : runs[r] \in Rows
    BY <1>2
  <2>4. QED
    BY <2>1, <2>2, <2>3
<1>5. row \in Rows /\ row.day = job.day /\ row.status = job.outcome /\ row.files = job.files
  BY <1>2, <1>4 DEF Rows
<1>6. runs' = [runs EXCEPT ![n] = row] \/ runs' = runs
  <2>1. CASE runs' = [runs EXCEPT ![n].status = job.outcome, ![n].files = job.files]
    BY <1>2, <1>4, <2>1 DEF Rows
  <2>2. QED
    BY <1>1, <2>1
<1> HIDE DEF n, row
<1>7. CASE runs' = runs
  <2>1. UNCHANGED tables
    BY <1>1, <1>7 DEF tables
  <2>2. TypeOK' /\ JobOK'
    BY <1>1, <1>2, <1>3, <1>7 DEF SyncInv, TypeOK, JobType, JobOK, HasRow, BeforeCandles
  <2>3. QED
    BY <2>1, <2>2, TablesKept DEF SyncInv
<1>8. CASE runs' = [runs EXCEPT ![n] = row]
  <2>1. /\ runs' \in Seq(Rows) /\ DOMAIN runs' = DOMAIN runs
        /\ \A r \in DOMAIN runs : runs'[r] = row \/ runs'[r] = runs[r]
    BY <1>2, <1>4, <1>5, <1>8
  <2>2. TypeOK' /\ JobOK'
    BY <1>1, <1>2, <1>3, <2>1 DEF SyncInv, TypeOK, JobType, Rows, JobOK, HasRow, BeforeCandles
  <2>3. CompletedMeansStored'
    <3>1. SUFFICES ASSUME NEW r \in DOMAIN runs, runs'[r].status = "COMPLETED"
                   PROVE  DayStored(runs[r].day, runs[r].files)'
      BY <2>1 DEF CompletedMeansStored
    <3>2. CASE runs'[r] = row
      BY <1>1, <1>2, <1>5, <3>1, <3>2 DEF DayStored
    <3>3. CASE runs'[r] = runs[r]
      BY <1>1, <3>1, <3>3 DEF SyncInv, CompletedMeansStored, DayStored
    <3>4. QED
      BY <2>1, <3>2, <3>3
  <2>4. SeriesKnown' /\ SeriesComplete' /\ ContinuousAgreesWithContracts'
    BY <1>1 DEF SyncInv, SeriesKnown, SeriesComplete, ContinuousAgreesWithContracts
  <2>5. QED
    BY <2>2, <2>3, <2>4 DEF SyncInv
<1>9. QED
  BY <1>6, <1>7, <1>8

LEMMA AdvanceOrKillStep ==
  ASSUME SyncInv, Advance \/ Kill
  PROVE  SyncInv'
<1>1. UNCHANGED <<today, archive, tables, starts>> /\ job.pc # "off"
  BY DEF Advance, Kill
<1>2. /\ SeriesKnown' /\ SeriesComplete' /\ CompletedMeansStored'
      /\ ContinuousAgreesWithContracts'
      /\ runs' = runs /\ instruments' = instruments /\ candles' = candles
  BY <1>1, TablesKept
<1>3. job \in JobType /\ job.day \in Days /\ job.to \in 0..Horizon
  BY <1>1 DEF SyncInv, TypeOK, JobType, JobOK
<1>4. NextDay \in Nat /\ NextDay > job.day
  <2>1. NextTradingDay(job.day) \in Nat /\ NextTradingDay(job.day) > job.day
    BY <1>3, NextTradingDayIsLater
  <2>2. job.day + 1 \in Nat /\ job.day + 1 > job.day
    BY <1>3, Calendars
  <2>3. QED
    BY <2>1, <2>2 DEF NextDay
<1>5. job' \in JobType /\ \/ job'.pc = "off"
                          \/ job'.pc = "create" /\ job'.day \in Days /\ job'.again = 0
  <2>1. Idle \in JobType /\ [Idle EXCEPT !.killed = TRUE] \in JobType
        /\ Idle.pc = "off" /\ [Idle EXCEPT !.killed = TRUE].pc = "off"
    BY IdleJob DEF JobType
  <2>2. CASE Kill
    BY <2>1, <2>2 DEF Kill
  <2>3. CASE Advance /\ NextDay > job.to
    BY <2>1, <2>3 DEF Advance
  <2>4. CASE Advance /\ ~(NextDay > job.to)
    <3> DEFINE next == NextDay
    <3>1. next \in Days /\ next \in 0..Horizon
      BY <1>3, <1>4, <2>4, Calendars
    <3>2. job' = [job EXCEPT !.pc = "create", !.day = next,
                             !.files = NoFiles, !.again = 0, !.outcome = "RUNNING"]
      BY <2>4 DEF Advance
    <3> HIDE DEF next
    <3>3. job' = [pc |-> "create", day |-> next, to |-> job.to, weekends |-> job.weekends,
                  files |-> NoFiles, again |-> 0, outcome |-> "RUNNING", killed |-> job.killed]
      BY <1>3, <3>2 DEF JobType
    <3>4. job.weekends \in BOOLEAN /\ job.killed \in BOOLEAN
      BY <1>3 DEF JobType
    <3>5. QED
      BY <1>3, <3>1, <3>3, <3>4, NoFilesTyped DEF JobType, Stages, Statuses
  <2>5. QED
    BY <2>2, <2>3, <2>4
<1>6. TypeOK' /\ JobOK'
  BY <1>1, <1>2, <1>5 DEF SyncInv, TypeOK, JobType, JobOK, HasRow, BeforeCandles
<1>7. QED
  BY <1>2, <1>6 DEF SyncInv
-----------------------------------------------------------------------------
(* The theorems *)

\* Through failures, kills, late and corrected files, the job keeps its tables
\* consistent (SyncProvider of internal/services/sync.go with SyncInstruments
\* and SyncCandles of internal/providers/nse/eod.go).
THEOREM SyncInvariant == Spec => []SyncInv
<1>1. Init => SyncInv
  <2>1. SUFFICES ASSUME Init PROVE SyncInv
    OBVIOUS
  <2>2. NoFiles \in [Files -> 0..2] /\ Idle \in JobType /\ Idle.pc = "off"
    BY NoFilesTyped, IdleJob
  <2>3. 1 \in Days /\ 0 \in 0..MaxStarts
    BY Calendars
  <2>4. <<>> \in Seq(Rows) /\ DOMAIN <<>> = {}
    OBVIOUS
  <2>5. archive \in [Days -> [Files -> 0..2]]
    BY <2>1, <2>2 DEF Init
  <2>6. TypeOK
    BY <2>1, <2>2, <2>3, <2>4, <2>5 DEF Init, TypeOK, JobType, Rows
  <2>7. JobOK
    BY <2>1, <2>2 DEF Init, JobOK, HasRow, BeforeCandles
  <2>8. SeriesKnown /\ SeriesComplete /\ CompletedMeansStored /\ ContinuousAgreesWithContracts
    BY <2>1, <2>4 DEF Init, SeriesKnown, SeriesComplete, CompletedMeansStored,
                      ContinuousAgreesWithContracts
  <2>9. QED
    BY <2>6, <2>7, <2>8 DEF SyncInv
<1>2. SyncInv /\ [Next]_vars => SyncInv'
  <2>1. SUFFICES ASSUME SyncInv, [Next]_vars PROVE SyncInv'
    OBVIOUS
  <2>2. CASE Tick \/ Publish \/ Revise \/ UNCHANGED vars
    BY <2>1, <2>2, WorldStep
  <2>3. CASE StartCatchUp \/ StartBackfill \/ StartSingleDay
    BY <2>1, <2>3, StartStep
  <2>4. CASE CreateRun
    BY <2>1, <2>4, CreateRunStep
  <2>5. CASE FetchFO \/ FetchIndex \/ FetchCM
    BY <2>1, <2>5, FetchStep
  <2>6. CASE UpsertInstruments
    BY <2>1, <2>6, UpsertStep
  <2>7. CASE SyncCandles
    BY <2>1, <2>7, CandlesStep
  <2>8. CASE CompleteRun
    BY <2>1, <2>8, CompleteRunStep
  <2>9. CASE Advance \/ Kill
    BY <2>1, <2>9, AdvanceOrKillStep
  <2>10. CASE FetchAgain
    BY <2>1, <2>10, FetchAgainStep
  <2>11. QED
    BY <2>1, <2>2, <2>3, <2>4, <2>5, <2>6, <2>7, <2>8, <2>9, <2>10 DEF Next, JobStep
<1>3. QED
  BY <1>1, <1>2, PTL DEF Spec

\* The archive, the tables and the job keep their types.
THEOREM SyncTypeCorrect == Spec => []TypeOK
<1>1. SyncInv => TypeOK
  BY DEF SyncInv
<1>2. QED
  BY <1>1, SyncInvariant, PTL

\* A run that says COMPLETED had all three files and every candle that they owe
\* to the instruments they list is stored, whatever broke around the statements
\* and also when a file was empty: then, with nothing to store, there may be no
\* candle at all (SyncProvider, SyncCandles and completeSyncRun).
THEOREM CompletedRunsStored == Spec => []CompletedMeansStored
<1>1. SyncInv => CompletedMeansStored
  BY DEF SyncInv
<1>2. QED
  BY <1>1, SyncInvariant, PTL

\* For any futures, options and expiries, the continuous series quotes a stored
\* future of its underlying that had not expired, from the same file, also where
\* a day was synced again (the near-month choice of SyncCandles).
THEOREM ContinuousSeriesAgrees == Spec => []ContinuousAgreesWithContracts
<1>1. SyncInv => ContinuousAgreesWithContracts
  BY DEF SyncInv
<1>2. QED
  BY <1>1, SyncInvariant, PTL

\* What a batch is made of decides that it is a possible one.
LEMMA BatchIsPossible ==
  ASSUME NEW day \in Days, NEW v \in Versions, NEW u \in Versions, NEW w \in Versions,
         NEW x \in Versions, NEW rows \in SUBSET FORows(day, v),
         NEW U \in SUBSET Underlyings(Contracts),
         FORows(day, u) # {} => rows = FORows(day, v) /\ Underlyings(rows) \subseteq U
  PROVE  FOCandles(day, rows, v) \cup IndexCandles(day, w) \cup CMCandles(day, x, U)
           \in PossibleBatches[day]
<1> DEFINE Offered(d, y, r, unders) ==
             \/ r = FORows(d, y) /\ Underlyings(r) \subseteq unders
             \/ \E e \in Versions : FORows(d, e) = {}
           Offers(d, y) == {o \in (SUBSET FORows(d, y)) \X (SUBSET Underlyings(Contracts)) :
                              Offered(d, y, o[1], o[2])}
           Batches(d, y) == {FOCandles(d, o[1], y) \cup IndexCandles(d, a) \cup CMCandles(d, b, o[2]) :
                               a \in Versions, b \in Versions, o \in Offers(d, y)}
<1>1. PossibleBatches[day] = UNION {Batches(day, y) : y \in Versions}
  BY DEF PossibleBatches
<1>2. PICK o \in (SUBSET FORows(day, v)) \X (SUBSET Underlyings(Contracts)) : o = <<rows, U>>
  OBVIOUS
<1>3. o[1] = rows /\ o[2] = U
  BY <1>2
<1>4. o \in Offers(day, v)
  BY <1>3
<1> HIDE DEF Offers
<1>5. \A a, b \in Versions : \A q \in Offers(day, v) :
        FOCandles(day, q[1], v) \cup IndexCandles(day, a) \cup CMCandles(day, b, q[2])
          \in Batches(day, v)
  OBVIOUS
<1> HIDE DEF Batches
<1>6. FOCandles(day, o[1], v) \cup IndexCandles(day, w) \cup CMCandles(day, x, o[2])
        \in Batches(day, v)
  BY <1>4, <1>5
<1>7. QED
  BY <1>1, <1>3, <1>6

\* The job in all its stages implements the promise to the readers of candles:
\* a day arrives as one batch of its three files, whole ones unless an F&O file
\* of the day is empty, and what is stored stays.
THEOREM SyncRefinesMarketData == Spec => ImplementsMarketData
<1> DEFINE calendar == [d \in Days |-> {c \in candles : c.day = d}]
<1>1. Init => Calendar!CalendarInit
  BY DEF Init, Calendar!CalendarInit
<1>2. SyncInv /\ [Next]_vars => [Calendar!CalendarNext]_calendar
  <2>1. SUFFICES ASSUME SyncInv, [Next]_vars
                 PROVE  Calendar!CalendarNext \/ UNCHANGED calendar
    OBVIOUS
  <2>2. CASE candles' = candles
    BY <2>2
  <2>3. CASE SyncCandles /\ candles' = Inserted(DayCandles)
    <3> DEFINE day == job.day
               batch == DayCandles
               v == FORead
               u == job.files["fo"]
               w == job.files["index"]
               x == job.files["cm"]
               rows == BatchRows
               U == BatchUnderlyings
    <3>1. job.pc = "candles"
      BY <2>3 DEF SyncCandles
    <3>2. /\ day \in Days /\ v \in Versions /\ u \in Versions /\ w \in Versions /\ x \in Versions
          /\ batch = FOCandles(day, rows, v) \cup IndexCandles(day, w) \cup CMCandles(day, x, U)
          /\ rows \subseteq FORows(day, v) /\ U \subseteq Underlyings(Contracts)
          /\ FORows(day, u) # {} => rows = FORows(day, v) /\ Underlyings(rows) \subseteq U
      BY <2>1, <3>1, KnownRows, WholeBatch DEF Files, BatchUnderlyings
    <3>3. \A c \in batch : c.day = day
      BY <2>1, <3>1, BatchKinds
    <3>4. candles' = candles \cup {c \in batch : \A e \in candles : ~SameKey(c, e)}
      BY <2>3 DEF Inserted
    <3> HIDE DEF day, batch, v, u, w, x, rows, U
    <3>5. batch \in PossibleBatches[day]
      BY <3>2, BatchIsPossible
    <3>6. \A c \in batch : (\A e \in candles : ~SameKey(c, e)) <=> ~Calendar!Stores(c, day)
      BY <3>2, <3>3 DEF SameKey, Calendar!Stores
    <3>7. {c \in candles' : c.day = day}
            = calendar[day] \cup {c \in batch : ~Calendar!Stores(c, day)}
      BY <3>2, <3>3, <3>4, <3>6
    <3>8. \A d \in Days \ {day} : {c \in candles' : c.day = d} = {c \in candles : c.day = d}
      BY <3>3, <3>4
    <3>9. calendar' = [calendar EXCEPT ![day] =
                         @ \cup {c \in batch : ~Calendar!Stores(c, day)}]
      BY <3>2, <3>7, <3>8
    <3>10. PICK d \in Days : d = day
      BY <3>2
    <3>11. PICK b \in PossibleBatches[d] : b = batch
      BY <3>5, <3>10
    <3>12. Calendar!StoreBatch(d, b)
      BY <3>9, <3>10, <3>11 DEF Calendar!StoreBatch
    <3>13. QED
      BY <3>12 DEF Calendar!CalendarNext
  <2>4. QED
    BY <2>1, <2>2, <2>3 DEF Next, JobStep, vars, tables, Tick, Publish, Revise, StartCatchUp,
          StartBackfill, StartSingleDay, StartAt, CreateRun, FetchFO, FetchIndex, FetchCM, Fetch,
          UpsertInstruments, FetchAgain, SyncCandles, NothingToStore, StoreCandles, CompleteRun,
          Advance, Kill
<1>3. QED
  BY <1>1, <1>2, SyncInvariant, PTL DEF Spec, ImplementsMarketData, Calendar!CalendarSpec
=============================================================================
