--------------------------- MODULE BacktestRuns ---------------------------
(***************************************************************************)
(* The life of a backtest run: POST /backtests inserts the row, marks it   *)
(* RUNNING, starts a goroutine and answers with a snapshot; the goroutine  *)
(* runs the engine on a BacktestRun of its own and writes it back in one   *)
(* UPDATE; GET /backtests/:id and /trades read the row meanwhile.          *)
(*                                                                         *)
(* A statement may fail, or succeed and lose its reply; the engine may     *)
(* return an error, a result whose P&L does not add up, or panic; the      *)
(* process may die, and nothing in it looks at old rows when it restarts.  *)
(***************************************************************************)
EXTENDS Naturals, FiniteSets

CONSTANTS
  Runs,        \* ids uuid.New() yields, one per admitted submission
  Owners,      \* user ids
  NoOwner,     \* user_id of a row that does not exist
  TradeCounts, \* how many trades an engine result can have
  MayCrash     \* whether the process may die

ASSUME RunsAssumption ==
  /\ IsFiniteSet(Runs)
  /\ NoOwner \notin Owners
  /\ TradeCounts \subseteq Nat
  /\ MayCrash \in BOOLEAN

VARIABLES
  rows,      \* the backtest_runs table
  submit,    \* the POST handlers, one per run
  work,      \* the goroutines, each with its BacktestRun in memory
  abandoned  \* history: runs whose goroutine died or could not write its end

vars == <<rows, submit, work, abandoned>>
-----------------------------------------------------------------------------
Statuses == {"PENDING", "RUNNING", "COMPLETED", "FAILED"}
Terminal == {"COMPLETED", "FAILED"}

\* result is "partial" once the metrics are set and "whole" once the trade
\* statistics and the chart are set too; error is ErrorMessage # nil.
Outcome == [result : {"none", "partial", "whole"}, error : BOOLEAN,
            trades : Nat]

\* doneAt orders the rows by completed_at; 0 is NULL.
Row == [status : Statuses \cup {"absent"}, owner : Owners \cup {NoOwner},
        outcome : Outcome, doneAt : Nat]

Submission == [pc : {"idle", "insert", "start", "reply", "done"},
               owner : Owners \cup {NoOwner},
               snapshot : Statuses \cup {"none"},  \* snapshot := *run
               shown : Statuses \cup {"none"}]     \* status in the 202 reply

Worker == [pc : {"none", "engine", "statistics", "persist", "ended"},
           status : Statuses \cup {"none"}, outcome : Outcome]

NoOutcome == [result |-> "none", error |-> FALSE, trades |-> 0]
NoRow == [status |-> "absent", owner |-> NoOwner, outcome |-> NoOutcome,
          doneAt |-> 0]
NoSubmission == [pc |-> "idle", owner |-> NoOwner, snapshot |-> "none",
                 shown |-> "none"]
NoWorker == [pc |-> "none", status |-> "none", outcome |-> NoOutcome]

TypeOK ==
  /\ rows \in [Runs -> Row]
  /\ submit \in [Runs -> Submission]
  /\ work \in [Runs -> Worker]
  /\ abandoned \subseteq Runs

Executing == {r \in Runs : work[r].pc \in {"engine", "statistics", "persist"}}

Init ==
  /\ rows = [r \in Runs |-> NoRow]
  /\ submit = [r \in Runs |-> NoSubmission]
  /\ work = [r \in Runs |-> NoWorker]
  /\ abandoned = {}
-----------------------------------------------------------------------------
(* POST /backtests: Submit *)

\* Anything the checks of Submit refuse, from a disabled service and a range
\* too long to an ambiguous instrument and missing candles, is refused before
\* a row exists.
SubmitRefused(r) ==
  /\ submit[r].pc = "idle"
  /\ submit' = [submit EXCEPT ![r].pc = "done"]
  /\ UNCHANGED <<rows, work, abandoned>>

Submit(r, user) ==
  /\ submit[r].pc = "idle"
  /\ submit' = [submit EXCEPT ![r].pc = "insert", ![r].owner = user]
  /\ UNCHANGED <<rows, work, abandoned>>

\* An INSERT or UPDATE reports success only if it took effect, but an error
\* (a lost connection, a cancelled request) may follow either way.
ErrorReply(r) == submit' = [submit EXCEPT ![r].pc = "done"]

RunningWorker == [NoWorker EXCEPT !.pc = "engine", !.status = "RUNNING"]

\* Mutant: the goroutine is launched before the row is marked RUNNING.
LaunchedAtInsert(r) == [work EXCEPT ![r] = RunningWorker]

AfterInsert(r) == work

CreateRun(r) ==
  /\ submit[r].pc = "insert"
  /\ \/ /\ rows' = [rows EXCEPT ![r].status = "PENDING",
                                ![r].owner = submit[r].owner]
        /\ \/ /\ submit' = [submit EXCEPT ![r].pc = "start"]
              /\ work' = AfterInsert(r)
           \/ /\ ErrorReply(r)
              /\ work' = work
     \/ /\ ErrorReply(r)
        /\ UNCHANGED <<rows, work>>
  /\ abandoned' = abandoned

\* UpdateStatus, the snapshot, and s.launch.
StartRun(r) ==
  /\ submit[r].pc = "start"
  /\ \/ /\ rows' = [rows EXCEPT ![r].status = "RUNNING"]
        /\ \/ /\ submit' = [submit EXCEPT ![r].pc = "reply",
                                          ![r].snapshot = "RUNNING"]
              /\ work' = [work EXCEPT ![r] = RunningWorker]
           \/ /\ ErrorReply(r)
              /\ work' = work
     \/ /\ ErrorReply(r)
        /\ UNCHANGED <<rows, work>>
  /\ abandoned' = abandoned

\* Mutant: the handler answers from the run the goroutine works on.
SharedRunStatus(r) == work[r].status

SubmitResponse(r) == submit[r].snapshot

Reply(r) ==
  /\ submit[r].pc = "reply"
  /\ submit' = [submit EXCEPT ![r].pc = "done", ![r].shown = SubmitResponse(r)]
  /\ UNCHANGED <<rows, work, abandoned>>
-----------------------------------------------------------------------------
(* executeRun *)

Stamped(n) == [result |-> "partial", error |-> FALSE, trades |-> n]

\* Mutant: the error message is stored and the status is left as it was.
FailedKeepingStatus(w) ==
  [w EXCEPT !.pc = "persist", !.outcome.error = TRUE]

\* failRun adds the message; metrics already on the run stay on it.
Failed(w) ==
  [w EXCEPT !.pc = "persist", !.status = "FAILED", !.outcome.error = TRUE]

\* Mutant: a panic ends the goroutine and nothing is recorded.
PanicUnhandled(w) == [w EXCEPT !.pc = "ended"]

\* The deferred recover.
AfterPanic(w) == Failed(w)

\* The engine returns an error or a result whose P&L identity does not hold
\* (failRun), panics (recover), or returns a result, whose metrics applyResult
\* puts on the run.
RunEngine(r) ==
  /\ work[r].pc = "engine"
  /\ \/ work' = [work EXCEPT ![r] = Failed(work[r])]
     \/ work' = [work EXCEPT ![r] = AfterPanic(work[r])]
     \/ \E n \in TradeCounts :
          work' = [work EXCEPT ![r] =
            [pc |-> "statistics", status |-> "COMPLETED", outcome |-> Stamped(n)]]
  /\ UNCHANGED <<rows, submit, abandoned>>

\* ComputeTradeStats and BuildChartData.
ComputeStatistics(r) ==
  /\ work[r].pc = "statistics"
  /\ \/ work' = [work EXCEPT ![r].pc = "persist", ![r].outcome.result = "whole"]
     \/ work' = [work EXCEPT ![r] = AfterPanic(work[r])]
  /\ UNCHANGED <<rows, submit, abandoned>>

NextCompletion ==
  Cardinality({r \in Runs : rows[r].status \in Terminal}) + 1

\* UpdateResult.  Its error is logged or ignored: the run is not tried again.
PersistResult(r) ==
  /\ work[r].pc = "persist"
  /\ \/ /\ rows' = [rows EXCEPT ![r].status = work[r].status,
                                ![r].outcome = work[r].outcome,
                                ![r].doneAt = NextCompletion]
        /\ abandoned' = abandoned
     \/ /\ abandoned' = abandoned \cup {r}
        /\ rows' = rows
  /\ work' = [work EXCEPT ![r].pc = "ended"]
  /\ submit' = submit
-----------------------------------------------------------------------------
\* The process dies with its handlers and goroutines.
Crash ==
  /\ MayCrash
  /\ submit' = [r \in Runs |->
                  IF submit[r].pc = "idle" THEN submit[r]
                  ELSE [submit[r] EXCEPT !.pc = "done"]]
  /\ work' = [r \in Runs |->
                IF r \in Executing THEN [work[r] EXCEPT !.pc = "ended"]
                ELSE work[r]]
  /\ abandoned' = abandoned \cup Executing
  /\ rows' = rows

HandlerStep(r) == CreateRun(r) \/ StartRun(r) \/ Reply(r)
WorkerStep(r) == RunEngine(r) \/ ComputeStatistics(r) \/ PersistResult(r)

Next ==
  \/ \E r \in Runs :
       \/ SubmitRefused(r)
       \/ \E user \in Owners : Submit(r, user)
       \/ HandlerStep(r)
       \/ WorkerStep(r)
  \/ Crash

Spec == Init /\ [][Next]_vars

\* Handlers and goroutines run on; the engine's loop is bounded by its candles.
Fairness == \A r \in Runs : WF_vars(HandlerStep(r)) /\ WF_vars(WorkerStep(r))

FairSpec == Spec /\ Fairness
-----------------------------------------------------------------------------
(* What readers get *)

\* GET /backtests/:id
StatusResponse(r) ==
  [status |-> rows[r].status, errorMessage |-> rows[r].outcome.error,
   result |-> IF rows[r].status = "COMPLETED" THEN rows[r].outcome.result
              ELSE "none"]

\* GET /backtests/:id/trades answers 409 until the run is COMPLETED.
TradesAvailable(r) == rows[r].status = "COMPLETED"
-----------------------------------------------------------------------------
(* Properties *)

\* A reader of GET /backtests/:id never meets a half-written run: a COMPLETED
\* one comes with statistics and chart and no error, a FAILED one with an error
\* message, any other with neither, and trades are served for COMPLETED runs
\* only, also when the failure came after the metrics had been stamped.
ReaderSeesWholeRun ==
  \A r \in Runs :
    /\ (StatusResponse(r).result = "whole") = (rows[r].status = "COMPLETED")
    /\ StatusResponse(r).result # "partial"
    /\ StatusResponse(r).errorMessage = (rows[r].status = "FAILED")
    /\ TradesAvailable(r) => StatusResponse(r).result = "whole"

\* The 202 reply says RUNNING even if the goroutine is done before it is
\* written, and the row has left PENDING by then.
AcceptedAsRunning ==
  \A r \in Runs :
    submit[r].shown # "none" =>
      /\ submit[r].shown = "RUNNING"
      /\ rows[r].status \in {"RUNNING"} \cup Terminal

\* A run ends once, by the goroutine its submission started, and is not
\* touched afterwards.
Lifecycle == INSTANCE RunLifecycle WITH
  status <- [r \in Runs |-> rows[r].status],
  owner <- [r \in Runs |-> rows[r].owner],
  outcome <- [r \in Runs |->
                IF rows[r].status = "COMPLETED"
                THEN IF rows[r].outcome.result = "whole" /\ ~rows[r].outcome.error
                     THEN "result" ELSE "broken"
                ELSE IF rows[r].outcome.error THEN "error" ELSE "none"]

ImplementsRunLifecycle == Lifecycle!LifecycleSpec

\* A run that was accepted ends, unless its goroutine died with the process or
\* could not store the end.
AcceptedRunsSettle ==
  \A r \in Runs :
    submit[r].shown = "RUNNING" ~>
      (rows[r].status \in Terminal \/ r \in abandoned)

\* What the comment on Submit tells the client: poll GetByID until the status
\* transitions to COMPLETED or FAILED.
PollingTerminates ==
  \A r \in Runs :
    submit[r].shown = "RUNNING" ~> rows[r].status \in Terminal
=============================================================================
