----------------------------- MODULE MarketSync -----------------------------
(***************************************************************************)
(* The market-data job, cmd/sync: it walks over days, one at a time, and   *)
(* for each day opens a sync_runs row, downloads the three NSE files of    *)
(* the day, upserts the instruments they list, stores the day's candles in *)
(* one transaction and closes the row.  A day that fails is skipped.       *)
(*                                                                         *)
(* The flock around the job (docs/scheduled-sync-setup.md) keeps it to one *)
(* process.  A call may fail with or without its effect: the connection,   *)
(* the database or the five-minute deadline of the day may break it after  *)
(* the server did the work.  The same deadline covers the last UPDATE.     *)
(***************************************************************************)
EXTENDS Integers, Sequences, FiniteSets, FiniteSetsExt

CONSTANTS
    Horizon,     \* the calendar is 1..Horizon; trading starts on day 1
    Weekend,     \* the days of the calendar that are Saturdays and Sundays
    Contracts,   \* the F&O contracts, [kind, under, expiry] records
    Indices,     \* the symbols that nseIndexNameMap keeps
    Stocks,      \* the EQ-series symbols
    NoName,      \* the underlying of an F&O row that names none
    FOListing, IndexListing, CMListing,  \* by day and version: the rows of a file
    Corrected,   \* bound: the kinds of file that NSE may publish a second time
    MaxStarts    \* bound: how often the job is started

Days == 1..Horizon
Files == {"fo", "index", "cm"}
Versions == 1..2     \* bound: NSE may publish one corrected file

ASSUME MarketSyncAssumption ==
    /\ Horizon \in Nat \ {0}
    /\ Weekend \subseteq Days
    /\ Contracts \subseteq [kind : {"future", "option"}, under : STRING \cup {NoName},
                            expiry : Nat]  \* expiry 0: none
    /\ FOListing \in [Days -> [Versions -> SUBSET Contracts]]
    /\ IndexListing \in [Days -> [Versions -> SUBSET Indices]]
    /\ CMListing \in [Days -> [Versions -> SUBSET Stocks]]
    /\ Corrected \subseteq Files
    /\ MaxStarts \in Nat

VARIABLES
    today,        \* the current UTC day
    archive,      \* archive[d][f]: version NSE serves of file f of day d, 0 = HTTP 404
    instruments,  \* the rows of table instruments
    candles,      \* the rows of table candles; their key is <<inst, day>>
    runs,         \* the rows of table sync_runs, oldest first; day and files are history
    job,          \* the running process
    starts        \* how often it was started

vars == <<today, archive, instruments, candles, runs, job, starts>>
tables == <<instruments, candles, runs>>

(***************************************************************************)
(* What the files list, which may be nothing.  Malformed rows, other       *)
(* series, types and indices are already left out; an F&O row is           *)
(* identified with its instrument.  A row of the file of day d carries the *)
(* date d, or none and is given it; parseRow would take any other date.    *)
(***************************************************************************)
Named(kind, u) == [kind |-> kind, under |-> u, expiry |-> 0]

FORows(d, v) == IF v = 0 THEN {} ELSE FOListing[d][v]
IndexRows(d, v) == IF v = 0 THEN {} ELSE IndexListing[d][v]
CMRows(d, v) == IF v = 0 THEN {} ELSE CMListing[d][v]
Underlyings(rows) == {r.under : r \in rows} \ {NoName}
Futures(rows) == {r \in rows : r.kind = "future" /\ r.under # NoName}

ContinuousInstruments(rows) == {Named("continuous", f.under) : f \in Futures(rows)}
IndexInstruments(rows) == {Named("index", s) : s \in rows}
CMInstruments(rows, unders) == {Named("equity", s) : s \in rows \cap unders}

AllInstruments ==
    Contracts \cup ContinuousInstruments(Contracts)
        \cup IndexInstruments(Indices) \cup CMInstruments(Stocks, Stocks)

Statuses == {"RUNNING", "COMPLETED", "FAILED"}
Stages == {"off", "create", "fo", "index", "cm", "upsert", "again",
           "candles", "complete", "advance"}
NoFiles == [f \in Files |-> 0]

TypeOK ==
    /\ today \in Days
    /\ archive \in [Days -> [Files -> 0..2]]
    /\ instruments \subseteq AllInstruments
    /\ candles \subseteq [inst : AllInstruments, day : Days, of : AllInstruments, ver : Versions]
    /\ runs \in Seq([day : Days, status : Statuses, files : [Files -> 0..2]])
    /\ job \in [pc : Stages, day : 0..Horizon, to : 0..Horizon, weekends : BOOLEAN,
                files : [Files -> 0..2],  \* what SyncInstruments downloaded
                again : 0..2,             \* what SyncCandles downloaded of the F&O file
                outcome : Statuses, killed : BOOLEAN]
    /\ starts \in 0..MaxStarts

Idle == [pc |-> "off", day |-> 0, to |-> 0, weekends |-> TRUE,
         files |-> NoFiles, again |-> 0, outcome |-> "RUNNING", killed |-> FALSE]

Init ==
    /\ today = 1
    /\ archive = [d \in Days |-> NoFiles]
    /\ instruments = {}
    /\ candles = {}
    /\ runs = <<>>
    /\ job = Idle
    /\ starts = 0

-----------------------------------------------------------------------------
(* The world: days pass, NSE publishes the files of a trading day, perhaps *)
(* late and one by one, and may replace one of them.                       *)

Tick ==
    /\ today < Horizon
    /\ today' = today + 1
    /\ UNCHANGED <<archive, tables, job, starts>>

Publish ==
    /\ \E d \in (1..today) \ Weekend, f \in Files :
        /\ archive[d][f] = 0
        /\ archive' = [archive EXCEPT ![d][f] = 1]
    /\ UNCHANGED <<today, tables, job, starts>>

Revise ==
    /\ \A d \in Days, f \in Files : archive[d][f] < 2
    /\ \E d \in Days, f \in Corrected :
        /\ archive[d][f] = 1
        /\ archive' = [archive EXCEPT ![d][f] = 2]
    /\ UNCHANGED <<today, tables, job, starts>>

-----------------------------------------------------------------------------
(* Starting the job.                                                       *)

LastSynced == Max({c.day : c \in candles})

StartAt(from, to, weekends) ==
    /\ job.pc = "off"
    /\ starts < MaxStarts
    /\ starts' = starts + 1
    /\ job' = [Idle EXCEPT !.pc = "create", !.day = from, !.to = to, !.weekends = weekends]
    /\ UNCHANGED <<today, archive, tables>>

\* No data stored, or today's already: the process exits at once.
StartCatchUp ==
    /\ candles # {}
    /\ LastSynced < today
    /\ StartAt(LastSynced + 1, today, TRUE)

StartBackfill == \E from, to \in 1..today : from <= to /\ StartAt(from, to, FALSE)

\* -date: a backfill of one day, on which the loop does not advance.
StartSingleDay == \E d \in 1..today : StartAt(d, d, TRUE)

-----------------------------------------------------------------------------
(* One day.                                                                *)

\* What was downloaded is of no more use.
RunFails(j) ==
    [j EXCEPT !.pc = "complete", !.outcome = "FAILED", !.files = NoFiles, !.again = 0]

\* Mutant: an index or CM file that is missing is skipped, as the provider
\* does when it has no target date.
MissingFileSkipped(file, next) ==
    IF file = "fo" THEN RunFails(job) ELSE [job EXCEPT !.pc = next]
MissingFile(file, next) == RunFails(job)

CreateRun ==
    /\ job.pc = "create"
    /\ \/ /\ runs' = Append(runs, [day |-> job.day, status |-> "RUNNING", files |-> NoFiles])
          /\ job' \in {[job EXCEPT !.pc = "fo"],          \* reported
                       [job EXCEPT !.pc = "advance"]}     \* inserted, the answer lost
       \/ /\ job' = [job EXCEPT !.pc = "advance"]
          /\ UNCHANGED runs
    /\ UNCHANGED <<today, archive, instruments, candles, starts>>

\* A download, kept in the provider for the candle stage.
Fetch(file, next) ==
    /\ job.pc = file
    /\ \/ /\ archive[job.day][file] # 0
          /\ job' = [job EXCEPT !.files[file] = archive[job.day][file], !.pc = next]
       \/ job' = MissingFile(file, next)
    /\ UNCHANGED <<today, archive, tables, starts>>

FetchFO == Fetch("fo", "index")
FetchIndex == Fetch("index", "cm")
FetchCM == Fetch("cm", "upsert")

ListedInstruments ==
    LET fo == FORows(job.day, job.files["fo"])
    IN  fo \cup ContinuousInstruments(fo)
            \cup IndexInstruments(IndexRows(job.day, job.files["index"]))
            \cup CMInstruments(CMRows(job.day, job.files["cm"]), Underlyings(fo))

\* Rows of the F&O file are cached, but no rows look like no cache.
UpsertInstruments ==
    /\ job.pc = "upsert"
    /\ \/ /\ instruments' = instruments \cup ListedInstruments
          /\ job' \in {[job EXCEPT !.pc = IF FORows(job.day, job.files["fo"]) = {}
                                          THEN "again" ELSE "candles"],
                       RunFails(job)}
       \/ /\ job' = RunFails(job)
          /\ UNCHANGED instruments
    /\ UNCHANGED <<today, archive, candles, runs, starts>>

FetchAgain ==
    /\ job.pc = "again"
    /\ \/ /\ archive[job.day]["fo"] # 0
          /\ job' = [job EXCEPT !.again = archive[job.day]["fo"], !.pc = "candles"]
       \/ job' = RunFails(job)
    /\ UNCHANGED <<today, archive, tables, starts>>

Candle(d, inst, of, v) == [inst |-> inst, day |-> d, of |-> of, ver |-> v]

\* Mutant: contracts past their expiry are not left out.
NearMonthsWithExpired(d, rows) ==
    {f \in Futures(rows) : \A g \in Futures(rows) : g.under = f.under => f.expiry <= g.expiry}
NearMonths(d, rows) ==
    LET alive == {f \in Futures(rows) : f.expiry >= d}
    IN  {f \in alive : \A g \in alive : g.under = f.under => f.expiry <= g.expiry}

FOCandles(d, rows, v) ==
    {Candle(d, r, r, v) : r \in rows}
        \cup {Candle(d, Named("continuous", f.under), f, v) : f \in NearMonths(d, rows)}

IndexCandles(d, v) ==
    {Candle(d, Named("index", s), Named("index", s), v) : s \in IndexRows(d, v)}

CMCandles(d, v, unders) ==
    {Candle(d, Named("equity", s), Named("equity", s), v) : s \in CMRows(d, v) \cap unders}

\* The version of the F&O file whose rows SyncCandles has.
FORead == IF job.again # 0 THEN job.again ELSE job.files["fo"]

NFOKinds == {"future", "option", "continuous"}
StoredUnderlyings ==
    {i.under : i \in {j \in instruments : j.kind \in NFOKinds}} \ {NoName}

\* Rows of unknown instruments are left out.  For candles, an underlying is one
\* of any F&O instrument stored so far, not only of this file.
DayCandles ==
    LET d == job.day
    IN  {c \in FOCandles(d, FORows(d, FORead) \cap instruments, FORead)
                  \cup IndexCandles(d, job.files["index"])
                  \cup CMCandles(d, job.files["cm"], StoredUnderlyings) : c.inst \in instruments}

SameKey(c, e) == c.inst = e.inst /\ c.day = e.day
\* INSERT ... ON CONFLICT DO NOTHING.
Inserted(batch) == candles \cup {c \in batch : \A e \in candles : ~SameKey(c, e)}

\* Mutant: the error of the insert is only logged.
InsertErrorLogged == [job EXCEPT !.pc = "complete", !.outcome = "COMPLETED"]
InsertError == RunFails(job)

DayDone == [job EXCEPT !.pc = "complete", !.outcome = "COMPLETED"]

\* No candles, no call of the database, and no error.
NothingToStore ==
    /\ DayCandles = {}
    /\ job' = DayDone
    /\ UNCHANGED candles

StoreCandles ==
    /\ DayCandles # {}
    /\ candles' = Inserted(DayCandles)
    /\ job' \in {DayDone, InsertError}

SyncCandles ==
    /\ job.pc = "candles"
    /\ \/ NothingToStore
       \/ StoreCandles
       \/ job' = InsertError /\ UNCHANGED candles  \* or the instruments are not read
    /\ UNCHANGED <<today, archive, instruments, runs, starts>>

CompleteRun ==
    /\ job.pc = "complete"
    /\ \/ runs' = [runs EXCEPT ![Len(runs)].status = job.outcome,
                              ![Len(runs)].files = job.files]
       \/ UNCHANGED runs
    /\ job' = [job EXCEPT !.pc = "advance"]
    /\ UNCHANGED <<today, archive, instruments, candles, starts>>

NextTradingDay(d) == Min({e \in d + 1..Horizon + 1 : e \notin Weekend})
\* Mutant: the loop ends with the first day that fails.
NextDayUnlessFailed ==
    IF job.outcome = "FAILED" THEN Horizon + 1
    ELSE IF job.weekends THEN job.day + 1 ELSE NextTradingDay(job.day)
NextDay == IF job.weekends THEN job.day + 1 ELSE NextTradingDay(job.day)

Advance ==
    /\ job.pc = "advance"
    /\ job' = IF NextDay > job.to
              THEN Idle
              ELSE [job EXCEPT !.pc = "create", !.day = NextDay,
                               !.files = NoFiles, !.again = 0, !.outcome = "RUNNING"]
    /\ UNCHANGED <<today, archive, tables, starts>>

\* The container is stopped or the machine goes down.
Kill ==
    /\ job.pc # "off"
    /\ job' = [Idle EXCEPT !.killed = TRUE]
    /\ UNCHANGED <<today, archive, tables, starts>>

-----------------------------------------------------------------------------
JobStep ==
    \/ CreateRun
    \/ FetchFO \/ FetchIndex \/ FetchCM
    \/ UpsertInstruments
    \/ FetchAgain \/ SyncCandles
    \/ CompleteRun
    \/ Advance

Next ==
    \/ Tick \/ Publish \/ Revise
    \/ StartCatchUp \/ StartBackfill \/ StartSingleDay
    \/ JobStep
    \/ Kill

\* A started process keeps running: every call ends with an answer, an error
\* or the deadline of its context.
Spec == Init /\ [][Next]_vars /\ WF_vars(JobStep)
-----------------------------------------------------------------------------
(* The detailed job implements MarketData: whatever was killed, refused,    *)
(* late, corrected or synced again, a day appears at once and from all      *)
(* three of its files (SyncInstruments and SyncCandles of                   *)
(* internal/providers/nse/eod.go give up the day when one is missing, and   *)
(* InsertBatchIgnoreDuplicates is one transaction), and a stored candle is  *)
(* neither changed nor removed (ON CONFLICT DO NOTHING), so that a backtest *)
(* never meets half a day and old results stay repeatable.  The rows of a   *)
(* file are there to the last one, except those of a day of which an F&O    *)
(* file lists nothing: what replaces it may name unknown instruments.  That *)
(* a missing index or CM file is skipped, as eod_index.go:65 and            *)
(* eod_cm.go:57 say of daily runs, is true of a provider without a target   *)
(* date only, which cmd/sync never makes.                                   *)
PossibleBatches ==
    LET Offered(d, v, rows, unders) ==
            \/ rows = FORows(d, v) /\ Underlyings(rows) \subseteq unders
            \/ \E e \in Versions : FORows(d, e) = {}
        Offers(d, v) == {o \in (SUBSET FORows(d, v)) \X (SUBSET Underlyings(Contracts)) :
                            Offered(d, v, o[1], o[2])}
    IN  [d \in Days |->
            UNION {{FOCandles(d, o[1], v) \cup IndexCandles(d, w) \cup CMCandles(d, x, o[2]) :
                        w \in Versions, x \in Versions, o \in Offers(d, v)} : v \in Versions}]

Calendar == INSTANCE MarketData WITH
    Batches <- PossibleBatches,
    calendar <- [d \in Days |-> {c \in candles : c.day = d}]

ImplementsMarketData == Calendar!CalendarSpec

(* A sync_runs row says COMPLETED only when all three files were there and  *)
(* every candle they yield for the instruments they list is stored, now or  *)
(* by an earlier run: each future, option, index and stock, and the         *)
(* continuous future of each underlying (SyncProvider and completeSyncRun   *)
(* of internal/services/sync.go).  It may be none: files without usable     *)
(* rows complete a day of which nothing is stored (SyncCandles).            *)
OwedCandles(d, files) ==
    LET fo == FORows(d, files["fo"])
    IN  FOCandles(d, fo, files["fo"]) \cup IndexCandles(d, files["index"])
            \cup CMCandles(d, files["cm"], Underlyings(fo))

DayStored(d, files) ==
    /\ \A f \in Files : files[f] # 0
    /\ \A c \in OwedCandles(d, files) : \E e \in candles : SameKey(c, e)

CompletedMeansStored ==
    \A r \in DOMAIN runs :
        runs[r].status = "COMPLETED" => DayStored(runs[r].day, runs[r].files)

(* The continuous series shows, each day, the very prices stored for a      *)
(* future of the same underlying that had not expired, taken from the same  *)
(* file (the near-month choice of SyncCandles, eod.go), also when the day   *)
(* is synced again from a corrected file, and never those of an option.     *)
ContinuousAgreesWithContracts ==
    \A c \in candles : c.inst.kind = "continuous" =>
        /\ c.of.kind = "future" /\ c.of.under = c.inst.under /\ c.of.expiry >= c.day
        /\ \E e \in candles : e.inst = c.of /\ e.day = c.day /\ e.ver = c.ver

(* One failed day does not cost the days after it: every trading day of a   *)
(* started walk gets its turn, unless the process is killed (the loops of   *)
(* cmd/sync/main.go, which log the error and go on).                        *)
FailedDayDoesNotStopTheRest ==
    \A d \in Days \ Weekend :
        (job.pc # "off" /\ job.day < d /\ d <= job.to)
            ~> ((job.pc = "create" /\ job.day = d) \/ job.killed)
=============================================================================
