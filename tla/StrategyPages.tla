---------------------------- MODULE StrategyPages ----------------------------
(***************************************************************************)
(* The readers of the two tables that others write meanwhile.  A strategy  *)
(* page (GET /strategies/:id) takes the last stored day from the candles   *)
(* and the user's last run from backtest_runs, one statement after the     *)
(* other and in no transaction; the list (GET /strategies) only the runs;  *)
(* POST /backtests reads a signal stream and then a trade stream.          *)
(*                                                                         *)
(* The writers are the abstract specifications their modules implement:    *)
(* MarketData (MarketSync) and RunLifecycle (BacktestRuns).                *)
(***************************************************************************)
EXTENDS MarketData, RunLifecycle, Naturals, FiniteSets, FiniteSetsExt

CONSTANTS
    Requests,    \* requests in progress together, each for a page or a submission
    Signal,      \* the instrument signals are read from: the index
    Trade        \* the instrument trades are made in: its continuous future

ASSUME PagesAssumption ==
    /\ Days \subseteq Nat \ {0}
    /\ Runs \subseteq Nat \ {0}      \* a run is numbered by its place in created_at
    /\ Signal # Trade

VARIABLES
    registry,    \* maxDate in the constraints the registry holds; 0 = no such key
    page,        \* the handlers of the strategy requests
    fetch        \* the handlers of the submissions

tables == <<calendar, lifecycleVars>>
pagesVars == <<tables, registry, page, fetch>>

NoDay == 0
NoRun == 0

Page == [pc : {"idle", "maxDate", "lastRun", "render", "send", "sent", "failed"},
         user : Owners \cup {NoOwner},
         detail : BOOLEAN,                \* one strategy, or the list of all
         maxDate : Days \cup {NoDay},
         run : Runs \cup {NoRun},         \* LastBacktest
         shared : BOOLEAN,                \* the reply's constraints are the registry's map
         limit : Days \cup {NoDay},       \* maxDate in constraints of its own, then as sent
         since : Days \cup {NoDay},       \* history: the last stored day when it began
         sawRun : Runs \cup {NoRun}]      \* history: the newest run the user had been shown

Fetch == [pc : {"idle", "second", "ready", "refused"},
          signalDays : SUBSET Days, tradeDays : SUBSET Days,
          held : SUBSET Days]   \* history: the trade days stored when the signals were read

PagesTypeOK ==
    /\ registry \in Days \cup {NoDay}
    /\ page \in [Requests -> Page]
    /\ fetch \in [Requests -> Fetch]

PagesInit ==
    /\ CalendarInit
    /\ LifecycleInit
    /\ registry = NoDay
    /\ page = [q \in Requests |->
          [pc |-> "idle", user |-> NoOwner, detail |-> TRUE, maxDate |-> NoDay, run |-> NoRun,
           shared |-> FALSE, limit |-> NoDay, since |-> NoDay, sawRun |-> NoRun]]
    /\ fetch = [f \in Requests |->
          [pc |-> "idle", signalDays |-> {}, tradeDays |-> {}, held |-> {}]]
-----------------------------------------------------------------------------
(* The writers *)

Sync ==
    /\ CalendarNext
    /\ UNCHANGED <<lifecycleVars, registry, page, fetch>>

\* created_at is the time of the INSERT: runs are numbered in that order.
InOrder(r) == \A s \in Runs : s < r => status[s] # "absent"

RunBacktests ==
    /\ LifecycleNext
    /\ \A r \in Runs : status[r] = "absent" /\ status'[r] # "absent" => InOrder(r)
    /\ UNCHANGED <<calendar, registry, page, fetch>>
-----------------------------------------------------------------------------
(* GET /strategies/:id and GET /strategies *)

StoredDays == {d \in Days : calendar[d] # {}}
Latest(S) == Max(S \cup {0})
ShownRuns(user) == {page[q].run : q \in {p \in Requests : page[p].pc = "sent" /\ page[p].user = user}}

Unused(q) == page[q].pc = "idle" /\ fetch[q].pc = "idle"

BeginPage(q) ==
    /\ Unused(q)
    /\ \E user \in Owners, detail \in BOOLEAN :
        page' = [page EXCEPT ![q] =
            [@ EXCEPT !.pc = IF detail THEN "maxDate" ELSE "lastRun",
                      !.user = user, !.detail = detail,
                      !.since = Latest(StoredDays), !.sawRun = Latest(ShownRuns(user))]]
    /\ UNCHANGED <<tables, registry, fetch>>

ReadMaxDate(q) ==
    /\ page[q].pc = "maxDate"
    /\ page' = [page EXCEPT ![q].pc = "lastRun", ![q].maxDate = Latest(StoredDays)]
    /\ UNCHANGED <<tables, registry, fetch>>

\* The rows LatestCompletedBySlug selects from; the runs here are of one strategy.
Completed(user) == {r \in Runs : status[r] = "COMPLETED" /\ owner[r] = user}

\* Mutant: without the ORDER BY any row of the user may be the one returned.
AnyCompleted(user) == IF Completed(user) = {} THEN {NoRun} ELSE Completed(user)

\* ORDER BY created_at DESC LIMIT 1; ErrNotFound leaves LastBacktest out.
LatestCompletedBySlug(user) == {Latest(Completed(user))}

ReadLastRun(q) ==
    /\ page[q].pc = "lastRun"
    /\ \E r \in LatestCompletedBySlug(page[q].user) :
        page' = [page EXCEPT ![q].pc = IF page[q].detail THEN "render" ELSE "send",
                             ![q].run = r]
    /\ UNCHANGED <<tables, registry, fetch>>

\* Either statement may fail: 500.
PageFails(q) ==
    /\ page[q].pc \in {"maxDate", "lastRun"}
    /\ page' = [page EXCEPT ![q].pc = "failed"]
    /\ UNCHANGED <<tables, registry, fetch>>

\* Mutant: the date is put into the map of the registry.
ConstraintsInPlace(p) ==
    [shared |-> TRUE, limit |-> NoDay, registry |-> IF p.maxDate = NoDay THEN registry ELSE p.maxDate]

\* copyConstraints, unless there is no date to add: then the map of the registry is used.
Constraints(p) ==
    [shared |-> p.maxDate = NoDay, limit |-> p.maxDate, registry |-> registry]

Render(q) ==
    /\ page[q].pc = "render"
    /\ LET c == Constraints(page[q])
       IN  /\ page' = [page EXCEPT ![q].pc = "send", ![q].shared = c.shared, ![q].limit = c.limit]
           /\ registry' = c.registry
    /\ UNCHANGED <<tables, fetch>>

\* The JSON encoder reads the maps.
Send(q) ==
    /\ page[q].pc = "send"
    /\ page' = [page EXCEPT ![q].pc = "sent",
                            ![q].limit = IF page[q].shared THEN registry ELSE @]
    /\ UNCHANGED <<tables, registry, fetch>>
-----------------------------------------------------------------------------
(* POST /backtests: fetchEngineInputs *)

DaysOf(inst) == {d \in Days : \E c \in calendar[d] : c.inst = inst}

\* The instruments of the two reads.  Mutant: the trade candles come first.
TradeThenSignal == <<Trade, Signal>>
ReadOrder == <<Signal, Trade>>

\* A stream read: no candles end the request with ErrNoCandleData, as an error does.
Stream(f, inst) ==
    IF inst = Signal
    THEN [fetch EXCEPT ![f].signalDays = DaysOf(inst), ![f].held = DaysOf(Trade)]
    ELSE [fetch EXCEPT ![f].tradeDays = DaysOf(inst)]

FetchRefused(f) == fetch' = [fetch EXCEPT ![f].pc = "refused"]

FetchFirst(f) ==
    /\ Unused(f)
    /\ \/ /\ DaysOf(ReadOrder[1]) # {}
          /\ fetch' = [Stream(f, ReadOrder[1]) EXCEPT ![f].pc = "second"]
       \/ FetchRefused(f)
    /\ UNCHANGED <<tables, registry, page>>

FetchSecond(f) ==
    /\ fetch[f].pc = "second"
    /\ \/ /\ DaysOf(ReadOrder[2]) # {}
          /\ fetch' = [Stream(f, ReadOrder[2]) EXCEPT ![f].pc = "ready"]
       \/ FetchRefused(f)
    /\ UNCHANGED <<tables, registry, page>>
-----------------------------------------------------------------------------
PagesNext ==
    \/ Sync
    \/ RunBacktests
    \/ \E q \in Requests :
        \/ BeginPage(q) \/ ReadMaxDate(q) \/ ReadLastRun(q) \/ PageFails(q) \/ Render(q) \/ Send(q)
        \/ FetchFirst(q) \/ FetchSecond(q)

PagesSpec == PagesInit /\ [][PagesNext]_pagesVars
-----------------------------------------------------------------------------
(* The date a strategy page offers as the last one is what was stored: not  *)
(* older than the request, not newer than the reply, and not the date of    *)
(* another request, although every request renders the inputs of the one    *)
(* strategy in the registry (toStrategyInputResponses).                     *)
DateLimitIsCurrent ==
    \A q \in Requests :
        page[q].pc = "sent" /\ page[q].detail =>
            page[q].since <= page[q].limit /\ page[q].limit <= Latest(StoredDays)

(* The last backtest of a strategy only moves forward: no reply shows a     *)
(* user an older run than one shown before the request began, in whatever   *)
(* order runs end, and what is shown is the user's own and has its result   *)
(* (LatestCompletedBySlug).                                                 *)
LastBacktestMovesForward ==
    \A q \in Requests :
        page[q].pc = "sent" =>
            /\ page[q].sawRun <= page[q].run
            /\ page[q].run # NoRun =>
                owner[page[q].run] = page[q].user /\ outcome[page[q].run] = "result"

(* A backtest is not told of a signal day whose trade candle it misses: if  *)
(* that candle was stored when the signals were read, the trade stream has  *)
(* it.  A sync may commit between the two reads of fetchEngineInputs; it    *)
(* adds whole days, and only to the stream that is read second.             *)
TradeStreamCoversSignals ==
    \A f \in Requests :
        fetch[f].pc = "ready" => fetch[f].signalDays \cap fetch[f].held \subseteq fetch[f].tradeDays
=============================================================================
