--------------------------- MODULE BacktestProofs ---------------------------
(***************************************************************************)
(* What TLC checks of BacktestRuns and BacktestHistory for two or three    *)
(* runs, proved for any finite set of runs and any page size.              *)
(*                                                                         *)
(* The first invariant relates, run by run, how far the handler and the    *)
(* goroutine have come with what the row says: a goroutine exists only     *)
(* between the UPDATE to RUNNING and the final one, and every outcome it   *)
(* can write is a whole one.                                               *)
(*                                                                         *)
(* The second is about a list that grows at its front, read page by page:  *)
(* completions are numbered without ties, what was shown or is due is      *)
(* still listed, and a due run in front of the next page has been seen.    *)
(* A run only moves back, so the walk cannot pass it.                      *)
(***************************************************************************)
EXTENDS BacktestHistory, Integers, FiniteSetTheorems, FunctionTheorems, TLAPS

\* An outcome that may be written with a final status.
WholeOutcome(status, outcome) ==
  \/ status = "COMPLETED" /\ outcome.result = "whole" /\ outcome.error = FALSE
  \/ status = "FAILED" /\ outcome.error = TRUE

\* The row of a run.
RowOK(row) ==
  \/ row.status = "absent" /\ row.owner = NoOwner /\ row.outcome = NoOutcome
  \/ row.status \in {"PENDING", "RUNNING"} /\ row.outcome = NoOutcome
  \/ WholeOutcome(row.status, row.outcome)

\* How far the handler is, and the row.
HandlerOK(row, s, w) ==
  /\ s.pc \in {"idle", "insert"} => row.status = "absent"
  /\ s.pc = "insert" => s.owner \in Owners
  /\ s.pc = "start" => row.status = "PENDING"
  /\ s.pc \in {"idle", "insert", "start"} => w.pc = "none" /\ s.shown = "none"
  /\ s.pc = "reply" => s.snapshot = "RUNNING"
  /\ s.pc = "reply" \/ s.shown # "none" =>
       row.status \in {"RUNNING", "COMPLETED", "FAILED"}
  /\ s.shown \in {"none", "RUNNING"}

\* How far the goroutine is, and the row.
WorkerOK(row, w) ==
  /\ w.pc \in {"engine", "statistics", "persist"} => row.status = "RUNNING"
  /\ w.pc = "statistics" => w.status = "COMPLETED" /\ w.outcome.error = FALSE
  /\ w.pc = "persist" => WholeOutcome(w.status, w.outcome)

RunOK(row, s, w) == RowOK(row) /\ HandlerOK(row, s, w) /\ WorkerOK(row, w)

RunsInv == TypeOK /\ \A r \in Runs : RunOK(rows[r], submit[r], work[r])
-----------------------------------------------------------------------------
\* TypeOK, run by run.
LEMMA TypedByRun ==
  ASSUME TypeOK, NEW r \in Runs
  PROVE  rows[r] \in Row /\ submit[r] \in Submission /\ work[r] \in Worker
BY DEF TypeOK

\* completed_at gets a number.
LEMMA CompletionsCounted == NextCompletion \in Nat
<1>1. IsFiniteSet({r \in Runs : rows[r].status \in Terminal})
  BY RunsAssumption, FS_Subset
<1>2. Cardinality({r \in Runs : rows[r].status \in Terminal}) \in Nat
  BY <1>1, FS_CardinalityType
<1> QED
  BY <1>2 DEF NextCompletion

\* The records of a run that has not begun.
LEMMA StartsTyped ==
  NoRow \in Row /\ NoSubmission \in Submission /\ NoWorker \in Worker
BY DEF NoRow, Row, NoSubmission, Submission, NoWorker, Worker, NoOutcome,
       Outcome, Statuses

\* failRun and recover leave a run that can be stored.
LEMMA FailedStorable ==
  ASSUME NEW w \in Worker
  PROVE  /\ Failed(w) \in Worker
         /\ Failed(w).pc = "persist"
         /\ WholeOutcome(Failed(w).status, Failed(w).outcome)
BY DEF Failed, Worker, Outcome, WholeOutcome, Statuses

\* The metrics applyResult sets first.
LEMMA StampedTyped ==
  ASSUME NEW n \in TradeCounts
  PROVE  Stamped(n) \in Outcome /\ Stamped(n).error = FALSE
BY RunsAssumption DEF Stamped, Outcome

\* The goroutine as it is launched.
LEMMA RunningTyped ==
  RunningWorker \in Worker /\ RunningWorker.pc = "engine"
BY StartsTyped DEF RunningWorker, NoWorker, Worker, Statuses
-----------------------------------------------------------------------------
\* What a step of one run's handler or goroutine has to establish: the run's
\* own records stay typed and related, the others are untouched.
LEMMA OneRunMoves ==
  ASSUME RunsInv, NEW r \in Runs,
         NEW row \in Row, NEW s \in Submission, NEW w \in Worker,
         rows' = [rows EXCEPT ![r] = row],
         submit' = [submit EXCEPT ![r] = s],
         work' = [work EXCEPT ![r] = w],
         abandoned' \subseteq Runs,
         RunOK(row, s, w)
  PROVE  RunsInv'
<1>1. TypeOK'
  BY DEF RunsInv, TypeOK
<1>2. \A q \in Runs : RunOK(rows'[q], submit'[q], work'[q])
  <2> TAKE q \in Runs
  <2>1. CASE q = r
    <3>1. rows'[q] = row /\ submit'[q] = s /\ work'[q] = w
      BY <2>1 DEF RunsInv, TypeOK
    <3> QED
      BY <3>1
  <2>2. CASE q # r
    <3>1. rows'[q] = rows[q] /\ submit'[q] = submit[q] /\ work'[q] = work[q]
      BY <2>2 DEF RunsInv, TypeOK
    <3>2. RunOK(rows[q], submit[q], work[q])
      BY DEF RunsInv
    <3> QED
      BY <3>1, <3>2
  <2> QED
    BY <2>1, <2>2
<1> QED
  BY <1>1, <1>2 DEF RunsInv

\* A table whose entry for r is replaced by itself.
LEMMA Unmoved ==
  ASSUME TypeOK, NEW r \in Runs
  PROVE  /\ rows = [rows EXCEPT ![r] = rows[r]]
         /\ submit = [submit EXCEPT ![r] = submit[r]]
         /\ work = [work EXCEPT ![r] = work[r]]
BY DEF TypeOK

\* A handler that gives up leaves its submission done, nothing shown.
LEMMA GivingUp ==
  ASSUME NEW row, NEW s \in Submission, NEW w, RowOK(row), WorkerOK(row, w),
         s.shown = "none"
  PROVE  LET d == [s EXCEPT !.pc = "done"]
         IN d \in Submission /\ RunOK(row, d, w)
BY DEF Submission, RunOK, HandlerOK, Statuses

\* The INSERT.
LEMMA Inserted ==
  ASSUME NEW row \in Row, NEW s \in Submission, NEW w \in Worker,
         RunOK(row, s, w), s.pc = "insert"
  PROVE  LET new == [row EXCEPT !.status = "PENDING", !.owner = s.owner]
         IN /\ new \in Row /\ RowOK(new) /\ WorkerOK(new, w)
            /\ new.status = "PENDING"
<1>1. row.status = "absent" /\ s.owner \in Owners /\ w.pc = "none"
  BY DEF RunOK, HandlerOK
<1>2. row.outcome = NoOutcome
  BY <1>1 DEF RunOK, RowOK, WholeOutcome
<1> QED
  BY <1>1, <1>2 DEF Row, Statuses, RowOK, WorkerOK

\* The UPDATE to RUNNING.
LEMMA Started ==
  ASSUME NEW row \in Row, NEW s \in Submission, NEW w \in Worker,
         RunOK(row, s, w), s.pc = "start"
  PROVE  LET new == [row EXCEPT !.status = "RUNNING"]
         IN /\ new \in Row /\ RowOK(new) /\ WorkerOK(new, w)
            /\ new.status = "RUNNING"
<1>1. row.status = "PENDING" /\ w.pc = "none"
  BY DEF RunOK, HandlerOK
<1>2. row.outcome = NoOutcome
  BY <1>1 DEF RunOK, RowOK, WholeOutcome
<1> QED
  BY <1>1, <1>2 DEF Row, Statuses, RowOK, WorkerOK
-----------------------------------------------------------------------------
\* SubmitRefused keeps the invariant.
LEMMA RefusedKeepsInv ==
  ASSUME RunsInv, NEW r \in Runs, SubmitRefused(r)
  PROVE  RunsInv'
<1> DEFINE s == [submit[r] EXCEPT !.pc = "done"]
<1>1. rows[r] \in Row /\ submit[r] \in Submission /\ work[r] \in Worker
  BY TypedByRun DEF RunsInv
<1>2. RunOK(rows[r], submit[r], work[r])
  BY DEF RunsInv
<1>3. submit[r].shown = "none" /\ RowOK(rows[r]) /\ WorkerOK(rows[r], work[r])
  BY <1>2 DEF RunOK, HandlerOK, SubmitRefused
<1>4. s \in Submission /\ RunOK(rows[r], s, work[r])
  BY <1>1, <1>3, GivingUp
<1>5. submit' = [submit EXCEPT ![r] = s]
  BY DEF SubmitRefused
<1>6. rows' = [rows EXCEPT ![r] = rows[r]] /\ work' = [work EXCEPT ![r] = work[r]]
  BY Unmoved DEF SubmitRefused, RunsInv
<1>7. abandoned' \subseteq Runs
  BY DEF SubmitRefused, RunsInv, TypeOK
<1> HIDE DEF s
<1> QED
  BY <1>1, <1>4, <1>5, <1>6, <1>7, OneRunMoves

\* Submit keeps the invariant.
LEMMA SubmitKeepsInv ==
  ASSUME RunsInv, NEW r \in Runs, NEW user \in Owners, Submit(r, user)
  PROVE  RunsInv'
<1> DEFINE s == [submit[r] EXCEPT !.pc = "insert", !.owner = user]
<1>1. rows[r] \in Row /\ submit[r] \in Submission /\ work[r] \in Worker
  BY TypedByRun DEF RunsInv
<1>2. RunOK(rows[r], submit[r], work[r]) /\ submit[r].pc = "idle"
  BY DEF RunsInv, Submit
<1>3. s \in Submission
  BY <1>1 DEF Submission
<1>4. s.pc = "insert" /\ s.owner = user /\ s.shown = submit[r].shown
  BY <1>1 DEF Submission
<1>5. submit' = [submit EXCEPT ![r] = s]
  BY <1>1 DEF Submit, RunsInv, TypeOK, Submission
<1> HIDE DEF s
<1>6. RunOK(rows[r], s, work[r])
  BY <1>2, <1>4 DEF RunOK, HandlerOK
<1>7. rows' = [rows EXCEPT ![r] = rows[r]] /\ work' = [work EXCEPT ![r] = work[r]]
  BY Unmoved DEF Submit, RunsInv
<1>8. abandoned' \subseteq Runs
  BY DEF Submit, RunsInv, TypeOK
<1> QED
  BY <1>1, <1>3, <1>5, <1>6, <1>7, <1>8, OneRunMoves

\* CreateRun keeps the invariant, whatever the INSERT does.
LEMMA CreateKeepsInv ==
  ASSUME RunsInv, NEW r \in Runs, CreateRun(r)
  PROVE  RunsInv'
<1> DEFINE row == [rows[r] EXCEPT !.status = "PENDING", !.owner = submit[r].owner]
           next == [submit[r] EXCEPT !.pc = "start"]
           fail == [submit[r] EXCEPT !.pc = "done"]
<1>1. rows[r] \in Row /\ submit[r] \in Submission /\ work[r] \in Worker
  BY TypedByRun DEF RunsInv
<1>2. RunOK(rows[r], submit[r], work[r]) /\ submit[r].pc = "insert"
  BY DEF RunsInv, CreateRun
<1>3. row \in Row /\ RowOK(row) /\ WorkerOK(row, work[r]) /\ row.status = "PENDING"
  BY <1>1, <1>2, Inserted
<1>4. submit[r].shown = "none" /\ work[r].pc = "none"
  BY <1>2 DEF RunOK, HandlerOK
<1>5. fail \in Submission /\ RunOK(row, fail, work[r]) /\ RunOK(rows[r], fail, work[r])
  BY <1>1, <1>2, <1>3, <1>4, GivingUp DEF RunOK
<1>6. next \in Submission /\ next.pc = "start" /\ next.shown = "none"
  BY <1>1, <1>4 DEF Submission
<1>7. RunOK(row, next, work[r])
  BY <1>3, <1>4, <1>6 DEF RunOK, HandlerOK
<1>8. work' = [work EXCEPT ![r] = work[r]] /\ rows = [rows EXCEPT ![r] = rows[r]]
  BY Unmoved DEF CreateRun, AfterInsert, RunsInv
<1>9. abandoned' \subseteq Runs
  BY DEF CreateRun, RunsInv, TypeOK
<1>10. \/ /\ rows' = [rows EXCEPT ![r] = row]
          /\ \/ submit' = [submit EXCEPT ![r] = next]
             \/ submit' = [submit EXCEPT ![r] = fail]
       \/ /\ rows' = [rows EXCEPT ![r] = rows[r]]
          /\ submit' = [submit EXCEPT ![r] = fail]
  BY <1>1, <1>8 DEF CreateRun, ErrorReply, RunsInv, TypeOK, Row
<1> HIDE DEF row, next, fail
<1> QED
  BY <1>1, <1>3, <1>5, <1>6, <1>7, <1>8, <1>9, <1>10, OneRunMoves

\* StartRun keeps the invariant: the goroutine it launches finds a RUNNING row.
LEMMA StartKeepsInv ==
  ASSUME RunsInv, NEW r \in Runs, StartRun(r)
  PROVE  RunsInv'
<1> DEFINE row == [rows[r] EXCEPT !.status = "RUNNING"]
           next == [submit[r] EXCEPT !.pc = "reply", !.snapshot = "RUNNING"]
           fail == [submit[r] EXCEPT !.pc = "done"]
<1>1. rows[r] \in Row /\ submit[r] \in Submission /\ work[r] \in Worker
  BY TypedByRun DEF RunsInv
<1>2. RunOK(rows[r], submit[r], work[r]) /\ submit[r].pc = "start"
  BY DEF RunsInv, StartRun
<1>3. row \in Row /\ RowOK(row) /\ WorkerOK(row, work[r]) /\ row.status = "RUNNING"
  BY <1>1, <1>2, Started
<1>4. submit[r].shown = "none" /\ work[r].pc = "none"
  BY <1>2 DEF RunOK, HandlerOK
<1>5. fail \in Submission /\ RunOK(row, fail, work[r]) /\ RunOK(rows[r], fail, work[r])
  BY <1>1, <1>2, <1>3, <1>4, GivingUp DEF RunOK
<1>6. /\ next \in Submission /\ next.pc = "reply" /\ next.shown = "none"
      /\ next.snapshot = "RUNNING"
  BY <1>1, <1>4 DEF Submission, Statuses
<1>7. RunOK(row, next, RunningWorker)
  BY <1>3, <1>6, RunningTyped DEF RunOK, HandlerOK, WorkerOK
<1>8. work = [work EXCEPT ![r] = work[r]] /\ rows = [rows EXCEPT ![r] = rows[r]]
  BY Unmoved DEF RunsInv
<1>9. abandoned' \subseteq Runs
  BY DEF StartRun, RunsInv, TypeOK
<1>10. \/ /\ rows' = [rows EXCEPT ![r] = row]
          /\ \/ /\ submit' = [submit EXCEPT ![r] = next]
                /\ work' = [work EXCEPT ![r] = RunningWorker]
             \/ /\ submit' = [submit EXCEPT ![r] = fail]
                /\ work' = [work EXCEPT ![r] = work[r]]
       \/ /\ rows' = [rows EXCEPT ![r] = rows[r]]
          /\ submit' = [submit EXCEPT ![r] = fail]
          /\ work' = [work EXCEPT ![r] = work[r]]
  BY <1>1, <1>8 DEF StartRun, ErrorReply, RunsInv, TypeOK, Row
<1> HIDE DEF row, next, fail
<1> QED
  BY <1>1, <1>3, <1>5, <1>6, <1>7, <1>9, <1>10, RunningTyped, OneRunMoves

\* Reply keeps the invariant.
LEMMA ReplyKeepsInv ==
  ASSUME RunsInv, NEW r \in Runs, Reply(r)
  PROVE  RunsInv'
<1> DEFINE s == [submit[r] EXCEPT !.pc = "done", !.shown = submit[r].snapshot]
<1>1. rows[r] \in Row /\ submit[r] \in Submission /\ work[r] \in Worker
  BY TypedByRun DEF RunsInv
<1>2. RunOK(rows[r], submit[r], work[r]) /\ submit[r].pc = "reply"
  BY DEF RunsInv, Reply
<1>3. submit[r].snapshot = "RUNNING"
  BY <1>2 DEF RunOK, HandlerOK
<1>4. s \in Submission /\ s.pc = "done" /\ s.shown = "RUNNING"
  BY <1>1, <1>3 DEF Submission
<1>5. submit' = [submit EXCEPT ![r] = s]
  BY <1>1 DEF Reply, SubmitResponse, RunsInv, TypeOK, Submission
<1> HIDE DEF s
<1>6. RunOK(rows[r], s, work[r])
  BY <1>2, <1>4 DEF RunOK, HandlerOK
<1>7. rows' = [rows EXCEPT ![r] = rows[r]] /\ work' = [work EXCEPT ![r] = work[r]]
  BY Unmoved DEF Reply, RunsInv
<1>8. abandoned' \subseteq Runs
  BY DEF Reply, RunsInv, TypeOK
<1> QED
  BY <1>1, <1>4, <1>5, <1>6, <1>7, <1>8, OneRunMoves
-----------------------------------------------------------------------------
\* A goroutine that has work to do finds its row RUNNING and its handler past
\* the launch; another state of the goroutine does not disturb the handler.
LEMMA WhileWorking ==
  ASSUME NEW row, NEW s, NEW w, NEW v, RunOK(row, s, w),
         w.pc \in {"engine", "statistics", "persist"}, WorkerOK(row, v)
  PROVE  row.status = "RUNNING" /\ RunOK(row, s, v)
BY DEF RunOK, HandlerOK, WorkerOK

\* RunEngine keeps the invariant.
LEMMA EngineKeepsInv ==
  ASSUME RunsInv, NEW r \in Runs, RunEngine(r)
  PROVE  RunsInv'
<1>1. rows[r] \in Row /\ submit[r] \in Submission /\ work[r] \in Worker
  BY TypedByRun DEF RunsInv
<1>2. RunOK(rows[r], submit[r], work[r]) /\ work[r].pc = "engine"
  BY DEF RunsInv, RunEngine
<1>3. rows[r].status = "RUNNING"
  BY <1>2 DEF RunOK, WorkerOK
<1>4. PICK w : /\ work' = [work EXCEPT ![r] = w]
               /\ \/ w = Failed(work[r])
                  \/ \E n \in TradeCounts :
                       w = [pc |-> "statistics", status |-> "COMPLETED",
                            outcome |-> Stamped(n)]
  BY DEF RunEngine, AfterPanic
<1>5. w \in Worker /\ WorkerOK(rows[r], w)
  <2>1. CASE w = Failed(work[r])
    BY <1>1, <1>3, <2>1, FailedStorable DEF WorkerOK
  <2>2. CASE \E n \in TradeCounts :
               w = [pc |-> "statistics", status |-> "COMPLETED",
                    outcome |-> Stamped(n)]
    <3>1. PICK n \in TradeCounts :
            w = [pc |-> "statistics", status |-> "COMPLETED", outcome |-> Stamped(n)]
      BY <2>2
    <3>2. Stamped(n) \in Outcome /\ Stamped(n).error = FALSE
      BY StampedTyped
    <3> QED
      BY <1>3, <3>1, <3>2 DEF WorkerOK, Worker, Statuses
  <2> QED
    BY <1>4, <2>1, <2>2
<1>6. RunOK(rows[r], submit[r], w)
  BY <1>2, <1>5, WhileWorking
<1>7. rows' = [rows EXCEPT ![r] = rows[r]] /\ submit' = [submit EXCEPT ![r] = submit[r]]
  BY Unmoved DEF RunEngine, RunsInv
<1>8. abandoned' \subseteq Runs
  BY DEF RunEngine, RunsInv, TypeOK
<1> QED
  BY <1>1, <1>4, <1>5, <1>6, <1>7, <1>8, OneRunMoves

\* ComputeStatistics keeps the invariant: what it hands on is a whole result or
\* a failure.
LEMMA StatisticsKeepInv ==
  ASSUME RunsInv, NEW r \in Runs, ComputeStatistics(r)
  PROVE  RunsInv'
<1> DEFINE ready == [work[r] EXCEPT !.pc = "persist", !.outcome.result = "whole"]
<1>1. rows[r] \in Row /\ submit[r] \in Submission /\ work[r] \in Worker
  BY TypedByRun DEF RunsInv
<1>2. RunOK(rows[r], submit[r], work[r]) /\ work[r].pc = "statistics"
  BY DEF RunsInv, ComputeStatistics
<1>3. /\ rows[r].status = "RUNNING"
      /\ work[r].status = "COMPLETED" /\ work[r].outcome.error = FALSE
  BY <1>2 DEF RunOK, WorkerOK
<1>4. PICK w : work' = [work EXCEPT ![r] = w] /\ (w = ready \/ w = Failed(work[r]))
  BY <1>1 DEF ComputeStatistics, AfterPanic, RunsInv, TypeOK, Worker, Outcome
<1>5. /\ ready \in Worker /\ ready.pc = "persist"
      /\ WholeOutcome(ready.status, ready.outcome)
  BY <1>1, <1>3 DEF Worker, Outcome, WholeOutcome
<1> HIDE DEF ready
<1>6. w \in Worker /\ WorkerOK(rows[r], w)
  BY <1>1, <1>3, <1>4, <1>5, FailedStorable DEF WorkerOK
<1>7. RunOK(rows[r], submit[r], w)
  BY <1>2, <1>6, WhileWorking
<1>8. rows' = [rows EXCEPT ![r] = rows[r]] /\ submit' = [submit EXCEPT ![r] = submit[r]]
  BY Unmoved DEF ComputeStatistics, RunsInv
<1>9. abandoned' \subseteq Runs
  BY DEF ComputeStatistics, RunsInv, TypeOK
<1> QED
  BY <1>1, <1>4, <1>6, <1>7, <1>8, <1>9, OneRunMoves

\* PersistResult keeps the invariant: what it writes is whole, and the handler
\* does not mind a final status.
LEMMA PersistKeepsInv ==
  ASSUME RunsInv, NEW r \in Runs, PersistResult(r)
  PROVE  RunsInv'
<1> DEFINE row == [rows[r] EXCEPT !.status = work[r].status,
                                  !.outcome = work[r].outcome,
                                  !.doneAt = NextCompletion]
           w == [work[r] EXCEPT !.pc = "ended"]
<1>1. rows[r] \in Row /\ submit[r] \in Submission /\ work[r] \in Worker
  BY TypedByRun DEF RunsInv
<1>2. RunOK(rows[r], submit[r], work[r]) /\ work[r].pc = "persist"
  BY DEF RunsInv, PersistResult
<1>3. rows[r].status = "RUNNING" /\ WholeOutcome(work[r].status, work[r].outcome)
  BY <1>2 DEF RunOK, WorkerOK
<1>4. w \in Worker /\ w.pc = "ended"
  BY <1>1 DEF Worker
<1>5. /\ row \in Row /\ row.status = work[r].status /\ row.outcome = work[r].outcome
      /\ row.status \in {"COMPLETED", "FAILED"}
  BY <1>1, <1>3, CompletionsCounted DEF Row, Worker, WholeOutcome, Statuses
<1>6. \/ rows' = [rows EXCEPT ![r] = row]
      \/ rows' = [rows EXCEPT ![r] = rows[r]]
  BY <1>1, Unmoved DEF PersistResult, RunsInv, TypeOK, Row
<1>7. /\ work' = [work EXCEPT ![r] = w]
      /\ submit' = [submit EXCEPT ![r] = submit[r]]
  BY Unmoved DEF PersistResult, RunsInv
<1>8. abandoned' \subseteq Runs
  BY DEF PersistResult, RunsInv, TypeOK
<1> HIDE DEF row, w
<1>9. RunOK(rows[r], submit[r], w)
  BY <1>2, <1>4, WhileWorking DEF WorkerOK
<1>10. RunOK(row, submit[r], w)
  BY <1>2, <1>3, <1>4, <1>5 DEF RunOK, RowOK, HandlerOK, WorkerOK
<1> QED
  BY <1>1, <1>4, <1>5, <1>6, <1>7, <1>8, <1>9, <1>10, OneRunMoves

\* Crash keeps the invariant: it ends handlers and goroutines, whose absence
\* the invariant allows at any time.
LEMMA CrashKeepsInv ==
  ASSUME RunsInv, Crash
  PROVE  RunsInv'
<1>1. \A r \in Runs :
        /\ submit'[r] \in Submission /\ work'[r] \in Worker
        /\ RunOK(rows[r], submit'[r], work'[r])
  <2> TAKE r \in Runs
  <2>1. rows[r] \in Row /\ submit[r] \in Submission /\ work[r] \in Worker
    BY TypedByRun DEF RunsInv
  <2>2. RunOK(rows[r], submit[r], work[r])
    BY DEF RunsInv
  <2> DEFINE s == [submit[r] EXCEPT !.pc = "done"]
             w == [work[r] EXCEPT !.pc = "ended"]
  <2>3. \/ submit[r].pc = "idle" /\ submit'[r] = submit[r]
        \/ submit[r].pc # "idle" /\ submit'[r] = s
    BY DEF Crash
  <2>4. \/ r \in Executing /\ work'[r] = w
        \/ r \notin Executing /\ work'[r] = work[r]
    BY DEF Crash
  <2>5. s \in Submission /\ s.pc = "done" /\ s.shown = submit[r].shown
    BY <2>1 DEF Submission
  <2>6. w \in Worker /\ w.pc = "ended"
    BY <2>1 DEF Worker
  <2>7. r \in Executing => work[r].pc \in {"engine", "statistics", "persist"}
    BY DEF Executing
  <2> HIDE DEF s, w
  <2>8. submit'[r] \in Submission /\ work'[r] \in Worker
    BY <2>1, <2>3, <2>4, <2>5, <2>6
  <2>9. WorkerOK(rows[r], work'[r])
    BY <2>2, <2>4, <2>6 DEF RunOK, WorkerOK
  <2>10. HandlerOK(rows[r], submit'[r], work'[r])
    BY <2>2, <2>3, <2>4, <2>5, <2>7 DEF RunOK, HandlerOK
  <2> QED
    BY <2>2, <2>8, <2>9, <2>10 DEF RunOK
<1>2. submit' \in [Runs -> Submission]
  BY <1>1 DEF Crash
<1>3. work' \in [Runs -> Worker]
  BY <1>1 DEF Crash
<1>4. rows' = rows /\ rows \in [Runs -> Row]
  BY DEF Crash, RunsInv, TypeOK
<1>5. abandoned' \subseteq Runs
  BY DEF Crash, RunsInv, TypeOK, Executing
<1> QED
  BY <1>1, <1>2, <1>3, <1>4, <1>5 DEF RunsInv, TypeOK

\* The initial states satisfy the invariant.
LEMMA RunsInvInit == Init => RunsInv
<1> SUFFICES ASSUME Init PROVE RunsInv
  OBVIOUS
<1>1. TypeOK
  BY StartsTyped DEF Init, TypeOK
<1>2. \A r \in Runs : RunOK(rows[r], submit[r], work[r])
  BY DEF Init, RunOK, RowOK, HandlerOK, WorkerOK, NoRow, NoSubmission, NoWorker
<1> QED
  BY <1>1, <1>2 DEF RunsInv

\* Every step keeps the invariant.
LEMMA RunsInvStep == RunsInv /\ [Next]_vars => RunsInv'
<1> SUFFICES ASSUME RunsInv, [Next]_vars PROVE RunsInv'
  OBVIOUS
<1>1. ASSUME NEW r \in Runs, SubmitRefused(r) PROVE RunsInv'
  BY <1>1, RefusedKeepsInv
<1>2. ASSUME NEW r \in Runs, NEW user \in Owners, Submit(r, user) PROVE RunsInv'
  BY <1>2, SubmitKeepsInv
<1>3. ASSUME NEW r \in Runs, HandlerStep(r) PROVE RunsInv'
  BY <1>3, CreateKeepsInv, StartKeepsInv, ReplyKeepsInv DEF HandlerStep
<1>4. ASSUME NEW r \in Runs, WorkerStep(r) PROVE RunsInv'
  BY <1>4, EngineKeepsInv, StatisticsKeepInv, PersistKeepsInv DEF WorkerStep
<1>5. CASE Crash
  BY <1>5, CrashKeepsInv
<1>6. CASE UNCHANGED vars
  BY <1>6 DEF vars, RunsInv, TypeOK
<1> QED
  BY <1>1, <1>2, <1>3, <1>4, <1>5, <1>6 DEF Next

\* The inductive invariant holds in every behaviour of Submit, executeRun and
\* the crashes between their steps.
THEOREM RunsInvariant == Spec => []RunsInv
<1> QED
  BY RunsInvInit, RunsInvStep, PTL DEF Spec
-----------------------------------------------------------------------------
\* Rows, handlers and goroutines keep the shapes TypeOK gives them.
THEOREM RunsTypeCorrect == Spec => []TypeOK
<1>1. RunsInv => TypeOK
  BY DEF RunsInv
<1> QED
  BY <1>1, RunsInvariant, PTL

\* GET /backtests/:id and /trades never show a half-written run, for any number
\* of runs and any interleaving of goroutines, failures and crashes.
THEOREM WholeRunsRead == Spec => []ReaderSeesWholeRun
<1>1. ASSUME RunsInv PROVE ReaderSeesWholeRun
  <2> SUFFICES ASSUME NEW r \in Runs
               PROVE  /\ (StatusResponse(r).result = "whole") = (rows[r].status = "COMPLETED")
                      /\ StatusResponse(r).result # "partial"
                      /\ StatusResponse(r).errorMessage = (rows[r].status = "FAILED")
                      /\ TradesAvailable(r) => StatusResponse(r).result = "whole"
    BY DEF ReaderSeesWholeRun
  <2>1. RowOK(rows[r])
    BY <1>1 DEF RunsInv, RunOK
  <2>2. rows[r].outcome.error \in BOOLEAN
    BY <1>1, TypedByRun DEF RunsInv, Row, Outcome
  <2>3. (rows[r].status = "COMPLETED") =>
          rows[r].outcome.result = "whole" /\ rows[r].outcome.error = FALSE
    BY <2>1 DEF RowOK, WholeOutcome
  <2>4. rows[r].outcome.error = (rows[r].status = "FAILED")
    BY <2>1, <2>2 DEF RowOK, WholeOutcome, NoOutcome
  <2> QED
    BY <2>3, <2>4 DEF StatusResponse, TradesAvailable
<1> QED
  BY <1>1, RunsInvariant, PTL

\* The 202 reply says RUNNING, of a row that has left PENDING.
THEOREM RunningWhenAccepted == Spec => []AcceptedAsRunning
<1>1. RunsInv => AcceptedAsRunning
  BY DEF RunsInv, RunOK, HandlerOK, AcceptedAsRunning, Terminal
<1> QED
  BY <1>1, RunsInvariant, PTL
-----------------------------------------------------------------------------
\* The status, owner and outcome columns as RunLifecycle sees them.
Shown(row) ==
  IF row.status = "COMPLETED"
  THEN IF row.outcome.result = "whole" /\ ~row.outcome.error
       THEN "result" ELSE "broken"
  ELSE IF row.outcome.error THEN "error" ELSE "none"

\* What a step may do to the row of a run, as its reader sees it.
RowStep(r) ==
  \/ /\ rows[r].status = "absent" /\ rows'[r].status = "PENDING"
     /\ rows'[r].owner \in Owners /\ Shown(rows'[r]) = Shown(rows[r])
  \/ /\ rows[r].status = "PENDING" /\ rows'[r].status = "RUNNING"
     /\ rows'[r].owner = rows[r].owner /\ Shown(rows'[r]) = Shown(rows[r])
  \/ /\ rows[r].status = "RUNNING" /\ rows'[r].status = "COMPLETED"
     /\ rows'[r].owner = rows[r].owner /\ Shown(rows'[r]) = "result"
  \/ /\ rows[r].status = "RUNNING" /\ rows'[r].status = "FAILED"
     /\ rows'[r].owner = rows[r].owner /\ Shown(rows'[r]) = "error"

\* Every step changes at most one row, and that in one of these ways.
LEMMA RowsChangeByRowSteps ==
  ASSUME RunsInv, [Next]_vars
  PROVE  \/ rows' = rows
         \/ \E r \in Runs :
              RowStep(r) /\ \A q \in Runs : q # r => rows'[q] = rows[q]
<1>1. ASSUME NEW r \in Runs, CreateRun(r), rows' # rows
      PROVE  RowStep(r) /\ \A q \in Runs : q # r => rows'[q] = rows[q]
  <2>1. rows' = [rows EXCEPT ![r].status = "PENDING", ![r].owner = submit[r].owner]
    BY <1>1 DEF CreateRun
  <2>2. RunOK(rows[r], submit[r], work[r]) /\ submit[r].pc = "insert"
    BY <1>1 DEF RunsInv, CreateRun
  <2>3. rows[r].status = "absent" /\ submit[r].owner \in Owners
    BY <2>2 DEF RunOK, HandlerOK
  <2>4. rows \in [Runs -> Row] /\ rows[r] \in Row
    BY DEF RunsInv, TypeOK
  <2>5. /\ rows'[r].status = "PENDING" /\ rows'[r].owner = submit[r].owner
        /\ rows'[r].outcome = rows[r].outcome
    BY <2>1, <2>4 DEF Row
  <2> QED
    BY <2>1, <2>3, <2>4, <2>5 DEF RowStep, Shown
<1>2. ASSUME NEW r \in Runs, StartRun(r), rows' # rows
      PROVE  RowStep(r) /\ \A q \in Runs : q # r => rows'[q] = rows[q]
  <2>1. rows' = [rows EXCEPT ![r].status = "RUNNING"]
    BY <1>2 DEF StartRun
  <2>2. RunOK(rows[r], submit[r], work[r]) /\ submit[r].pc = "start"
    BY <1>2 DEF RunsInv, StartRun
  <2>3. rows[r].status = "PENDING"
    BY <2>2 DEF RunOK, HandlerOK
  <2>4. rows \in [Runs -> Row] /\ rows[r] \in Row
    BY DEF RunsInv, TypeOK
  <2>5. /\ rows'[r].status = "RUNNING" /\ rows'[r].owner = rows[r].owner
        /\ rows'[r].outcome = rows[r].outcome
    BY <2>1, <2>4 DEF Row
  <2> QED
    BY <2>1, <2>3, <2>4, <2>5 DEF RowStep, Shown
<1>3. ASSUME NEW r \in Runs, PersistResult(r), rows' # rows
      PROVE  RowStep(r) /\ \A q \in Runs : q # r => rows'[q] = rows[q]
  <2>1. rows' = [rows EXCEPT ![r].status = work[r].status,
                             ![r].outcome = work[r].outcome,
                             ![r].doneAt = NextCompletion]
    BY <1>3 DEF PersistResult
  <2>2. RunOK(rows[r], submit[r], work[r]) /\ work[r].pc = "persist"
    BY <1>3 DEF RunsInv, PersistResult
  <2>3. rows[r].status = "RUNNING" /\ WholeOutcome(work[r].status, work[r].outcome)
    BY <2>2 DEF RunOK, WorkerOK
  <2>4. rows \in [Runs -> Row] /\ rows[r] \in Row
    BY DEF RunsInv, TypeOK
  <2>5. /\ rows'[r].status = work[r].status /\ rows'[r].owner = rows[r].owner
        /\ rows'[r].outcome = work[r].outcome
    BY <2>1, <2>4 DEF Row
  <2> QED
    BY <2>1, <2>3, <2>4, <2>5 DEF RowStep, Shown, WholeOutcome
<1>4. ASSUME NEW r \in Runs, SubmitRefused(r) PROVE rows' = rows
  BY <1>4 DEF SubmitRefused
<1>5. ASSUME NEW r \in Runs, NEW user \in Owners, Submit(r, user) PROVE rows' = rows
  BY <1>5 DEF Submit
<1>6. ASSUME NEW r \in Runs, Reply(r) PROVE rows' = rows
  BY <1>6 DEF Reply
<1>7. ASSUME NEW r \in Runs, RunEngine(r) PROVE rows' = rows
  BY <1>7 DEF RunEngine
<1>8. ASSUME NEW r \in Runs, ComputeStatistics(r) PROVE rows' = rows
  BY <1>8 DEF ComputeStatistics
<1>9. CASE Crash
  BY <1>9 DEF Crash
<1>10. CASE UNCHANGED vars
  BY <1>10 DEF vars
<1> QED
  BY <1>1, <1>2, <1>3, <1>4, <1>5, <1>6, <1>7, <1>8, <1>9, <1>10
     DEF Next, HandlerStep, WorkerStep

\* BacktestRuns implements RunLifecycle: no interleaving of handlers,
\* goroutines, lost replies and crashes ends a run twice, moves it backwards,
\* or gives it to somebody else.
THEOREM RunsRefineLifecycle == Spec => ImplementsRunLifecycle
<1> DEFINE st == [r \in Runs |-> rows[r].status]
           ow == [r \in Runs |-> rows[r].owner]
           oc == [r \in Runs |-> Shown(rows[r])]
<1>1. Init => Lifecycle!LifecycleInit
  BY DEF Init, Lifecycle!LifecycleInit, NoRow, NoOutcome
<1>2. ASSUME RunsInv, [Next]_vars
      PROVE  [Lifecycle!LifecycleNext]_(Lifecycle!lifecycleVars)
  <2>1. CASE rows' = rows
    BY <2>1 DEF Lifecycle!lifecycleVars
  <2>2. ASSUME NEW r \in Runs, RowStep(r),
               \A q \in Runs : q # r => rows'[q] = rows[q]
        PROVE  Lifecycle!LifecycleNext
    <3>1. /\ st' = [st EXCEPT ![r] = rows'[r].status]
          /\ ow' = [ow EXCEPT ![r] = rows'[r].owner]
          /\ oc' = [oc EXCEPT ![r] = Shown(rows'[r])]
      BY <2>2
    <3>2. st[r] = rows[r].status /\ ow[r] = rows[r].owner /\ oc[r] = Shown(rows[r])
      OBVIOUS
    <3>3. /\ rows'[r].owner = rows[r].owner => ow' = ow
          /\ Shown(rows'[r]) = Shown(rows[r]) => oc' = oc
      BY <3>1, <3>2
    <3> HIDE DEF st, ow, oc
    <3>4. \/ \E o \in Owners :
               /\ st[r] = "absent" /\ st' = [st EXCEPT ![r] = "PENDING"]
               /\ ow' = [ow EXCEPT ![r] = o] /\ oc' = oc
          \/ /\ st[r] = "PENDING" /\ st' = [st EXCEPT ![r] = "RUNNING"]
             /\ ow' = ow /\ oc' = oc
          \/ /\ st[r] = "RUNNING" /\ st' = [st EXCEPT ![r] = "COMPLETED"]
             /\ ow' = ow /\ oc' = [oc EXCEPT ![r] = "result"]
          \/ /\ st[r] = "RUNNING" /\ st' = [st EXCEPT ![r] = "FAILED"]
             /\ ow' = ow /\ oc' = [oc EXCEPT ![r] = "error"]
      BY <2>2, <3>1, <3>2, <3>3 DEF RowStep
    <3> QED
      BY <3>4 DEF Lifecycle!LifecycleNext, Lifecycle!Record, Lifecycle!Start,
                  Lifecycle!Finish, st, ow, oc, Shown
  <2> QED
    BY <1>2, <2>1, <2>2, RowsChangeByRowSteps
<1> QED
  BY <1>1, <1>2, RunsInvariant, PTL
     DEF Spec, ImplementsRunLifecycle, Lifecycle!LifecycleSpec
-----------------------------------------------------------------------------
(* Pages of a finite set that is ordered by a key *)

\* The place of x in S, the largest key first.
Rank(S, key, x) == Cardinality({y \in S : key[y] > key[x]})

\* Places start at zero, and there is one for each element.
LEMMA RankBelow ==
  ASSUME NEW S, IsFiniteSet(S), NEW key \in [S -> Nat], NEW x \in S
  PROVE  Rank(S, key, x) \in 0..(Cardinality(S) - 1)
<1> DEFINE A == {y \in S : key[y] > key[x]}
<1>1. A \in SUBSET S /\ A # S
  OBVIOUS
<1>2. IsFiniteSet(A) /\ Cardinality(A) <= Cardinality(S) /\ Cardinality(A) # Cardinality(S)
  BY <1>1, FS_Subset
<1>3. Cardinality(A) \in Nat /\ Cardinality(S) \in Nat
  BY <1>2, FS_CardinalityType
<1> HIDE DEF A
<1>4. Cardinality(A) \in 0..(Cardinality(S) - 1)
  BY <1>2, <1>3
<1>5. QED
  BY <1>4 DEF Rank, A

\* A smaller key has a later place.
LEMMA RankStrict ==
  ASSUME NEW S, IsFiniteSet(S), NEW key \in [S -> Nat], NEW x \in S, NEW y \in S,
         key[x] > key[y]
  PROVE  Rank(S, key, x) < Rank(S, key, y)
<1> DEFINE A == {z \in S : key[z] > key[x]}
           B == {z \in S : key[z] > key[y]}
<1>1. A \in SUBSET B /\ A # B /\ B \in SUBSET S
  OBVIOUS
<1>2. IsFiniteSet(B)
  BY <1>1, FS_Subset
<1>3. IsFiniteSet(A) /\ Cardinality(A) <= Cardinality(B) /\ Cardinality(A) # Cardinality(B)
  BY <1>1, <1>2, FS_Subset
<1>4. Cardinality(A) \in Nat /\ Cardinality(B) \in Nat
  BY <1>2, <1>3, FS_CardinalityType
<1> HIDE DEF A, B
<1>5. Cardinality(A) < Cardinality(B)
  BY <1>3, <1>4
<1>6. QED
  BY <1>5 DEF Rank, A, B

\* Without ties every place is taken once.
LEMMA RankBijection ==
  ASSUME NEW S, IsFiniteSet(S), NEW key \in [S -> Nat],
         \A x, y \in S : key[x] = key[y] => x = y
  PROVE  [x \in S |-> Rank(S, key, x)] \in Bijection(S, 0..(Cardinality(S) - 1))
<1> DEFINE n == Cardinality(S)
           f == [x \in S |-> Rank(S, key, x)]
<1>1. n \in Nat
  BY FS_CardinalityType
<1>2. f \in [S -> 0..(n - 1)]
  BY RankBelow
<1>3. \A x \in S : Rank(S, key, x) \in Int
  BY <1>1, RankBelow
<1>4. ASSUME NEW x \in S, NEW y \in S, f[x] = f[y] PROVE x = y
  <2>1. key[x] \in Nat /\ key[y] \in Nat
    OBVIOUS
  <2>2. ~(key[x] > key[y])
    BY <1>3, <1>4, RankStrict
  <2>3. ~(key[y] > key[x])
    BY <1>3, <1>4, RankStrict
  <2>4. QED
    BY <2>1, <2>2, <2>3
<1>5. IsFiniteSet(0..(n - 1)) /\ Cardinality(0..(n - 1)) = n
  BY <1>1, FS_Interval
<1>6. f \in Injection(S, 0..(n - 1))
  BY <1>2, <1>4, Fun_IsInj
<1>7. f \in Surjection(S, 0..(n - 1))
  BY <1>5, <1>6, FS_Injection
<1>8. QED
  BY <1>6, <1>7 DEF Bijection

\* The places from "off" to "hi - 1" are taken by hi - off elements.
LEMMA WindowSize ==
  ASSUME NEW S, IsFiniteSet(S), NEW key \in [S -> Nat],
         \A x, y \in S : key[x] = key[y] => x = y,
         NEW off \in Nat, NEW hi \in Nat, off <= hi, hi <= Cardinality(S)
  PROVE  Cardinality({x \in S : Rank(S, key, x) >= off /\ Rank(S, key, x) < hi})
           = hi - off
<1> DEFINE n == Cardinality(S)
           f == [x \in S |-> Rank(S, key, x)]
           W == {x \in S : Rank(S, key, x) >= off /\ Rank(S, key, x) < hi}
           g == [x \in W |-> Rank(S, key, x)]
<1>1. n \in Nat
  BY FS_CardinalityType
<1>2. f \in Bijection(S, 0..(n - 1))
  BY RankBijection
<1>3. /\ \A x \in S : Rank(S, key, x) \in 0..(n - 1)
      /\ \A x, y \in S : Rank(S, key, x) = Rank(S, key, y) => x = y
      /\ \A k \in 0..(n - 1) : \E x \in S : Rank(S, key, x) = k
  <2>1. \A x \in S : f[x] = Rank(S, key, x)
    OBVIOUS
  <2> HIDE DEF f
  <2>2. /\ f \in [S -> 0..(n - 1)]
        /\ \A x, y \in S : f[x] = f[y] => x = y
        /\ \A k \in 0..(n - 1) : \E x \in S : f[x] = k
    BY <1>2 DEF Bijection, Injection, Surjection, IsInjective
  <2>3. QED
    BY <2>1, <2>2
<1>4. g \in [W -> off..(hi - 1)]
  BY <1>1, <1>3
<1>5. \A x, y \in W : g[x] = g[y] => x = y
  BY <1>3
<1>6. ASSUME NEW k \in off..(hi - 1) PROVE \E x \in W : g[x] = k
  <2>1. k \in 0..(n - 1)
    BY <1>1, <1>6
  <2>2. PICK x \in S : Rank(S, key, x) = k
    BY <1>3, <2>1
  <2>3. x \in W
    BY <1>6, <2>2
  <2>4. QED
    BY <2>2, <2>3
<1> HIDE DEF g, W
<1>7. g \in Bijection(W, off..(hi - 1))
  BY <1>4, <1>5, <1>6, Fun_IsBij
<1>8. IsFiniteSet(W)
  BY FS_Subset DEF W
<1>9. Cardinality(off..(hi - 1)) = Cardinality(W)
  <2>1. ExistsBijection(W, off..(hi - 1))
    BY <1>7 DEF ExistsBijection
  <2>2. QED
    BY <1>8, <2>1, FS_Bijection
<1>10. Cardinality(off..(hi - 1)) = hi - off
  <2>1. off \in Int /\ hi - 1 \in Int
    OBVIOUS
  <2>2. Cardinality(off..(hi - 1)) = IF off > hi - 1 THEN 0 ELSE (hi - 1) - off + 1
    BY <2>1, FS_Interval
  <2>3. QED
    BY <2>2
<1>11. QED
  BY <1>9, <1>10 DEF W

\* A page that starts at "off" has "lim" elements, or it has all that follow.
LEMMA PageSize ==
  ASSUME NEW S, IsFiniteSet(S), NEW key \in [S -> Nat],
         \A x, y \in S : key[x] = key[y] => x = y,
         NEW off \in Nat, NEW lim \in Nat
  PROVE  LET W == {x \in S : /\ Rank(S, key, x) >= off
                             /\ Rank(S, key, x) < off + lim}
         IN \/ Cardinality(W) = lim
            \/ /\ Cardinality(W) >= Cardinality(S) - off
               /\ \A x \in S : Rank(S, key, x) < off + lim
<1> DEFINE n == Cardinality(S)
           W == {x \in S : /\ Rank(S, key, x) >= off
                           /\ Rank(S, key, x) < off + lim}
<1>1. n \in Nat
  BY FS_CardinalityType
<1>2. \A x \in S : Rank(S, key, x) \in 0..(n - 1)
  BY RankBelow
<1>3. CASE off + lim <= n
  <2>1. Cardinality(W) = (off + lim) - off
    BY <1>3, WindowSize
  <2>2. QED
    BY <2>1
<1>4. CASE off + lim > n /\ off <= n
  <2>1. W = {x \in S : Rank(S, key, x) >= off /\ Rank(S, key, x) < n}
    BY <1>1, <1>2, <1>4
  <2>2. Cardinality(W) = n - off
    BY <1>1, <1>4, <2>1, WindowSize
  <2>3. \A x \in S : Rank(S, key, x) < off + lim
    BY <1>1, <1>2, <1>4
  <2>4. QED
    BY <1>1, <2>2, <2>3
<1>5. CASE off > n
  <2>1. IsFiniteSet(W)
    BY FS_Subset
  <2>2. Cardinality(W) \in Nat
    BY <2>1, FS_CardinalityType
  <2>3. \A x \in S : Rank(S, key, x) < off + lim
    BY <1>1, <1>2, <1>5
  <2> HIDE DEF W
  <2>4. Cardinality(W) >= n - off
    BY <1>1, <1>5, <2>2
  <2>5. QED
    BY <2>3, <2>4 DEF W
<1>6. QED
  BY <1>1, <1>3, <1>4, <1>5
-----------------------------------------------------------------------------
(* The order of completion *)

Ended == {r \in Runs : rows[r].status \in Terminal}

\* completed_at orders the runs that ended, without ties.
DoneInv ==
  /\ \A r \in Ended : rows[r].doneAt >= 1 /\ rows[r].doneAt <= Cardinality(Ended)
  /\ \A q, r \in Ended : rows[q].doneAt = rows[r].doneAt => q = r

\* Completions are counted.
LEMMA EndedFinite ==
  IsFiniteSet(Ended) /\ Cardinality(Ended) \in Nat
  /\ NextCompletion = Cardinality(Ended) + 1
<1>1. IsFiniteSet(Ended)
  BY RunsAssumption, FS_Subset DEF Ended
<1>2. QED
  BY <1>1, FS_CardinalityType DEF NextCompletion, Ended

\* Only PersistResult ends a run, and it stores the next number.
LEMMA RunsEndOnce ==
  ASSUME RunsInv, [Next]_vars
  PROVE  \/ /\ Ended' = Ended
            /\ \A r \in Ended : rows'[r] = rows[r]
         \/ \E r \in Runs \ Ended :
              /\ Ended' = Ended \cup {r}
              /\ \A q \in Ended : rows'[q] = rows[q]
              /\ rows'[r].doneAt = NextCompletion
<1> USE DEF RunsInv, TypeOK
<1> DEFINE Same == Ended' = Ended /\ \A r \in Ended : rows'[r] = rows[r]
<1>1. CASE rows' = rows
  BY <1>1 DEF Ended
<1>2. ASSUME NEW r \in Runs, NEW row, rows[r].status \notin Terminal,
             row.status \notin Terminal, rows' = [rows EXCEPT ![r] = row]
      PROVE  Same
  BY <1>2 DEF Ended
<1>3. ASSUME NEW r \in Runs, CreateRun(r) PROVE Same
  <2> DEFINE row == [rows[r] EXCEPT !.status = "PENDING", !.owner = submit[r].owner]
  <2>1. rows[r].status = "absent"
    BY <1>3 DEF CreateRun, RunOK, HandlerOK
  <2>2. rows' = [rows EXCEPT ![r] = row] \/ rows' = rows
    BY <1>3 DEF CreateRun, Row
  <2>3. row.status = "PENDING"
    BY DEF Row
  <2> HIDE DEF row
  <2>4. QED
    BY <1>1, <1>2, <2>1, <2>2, <2>3 DEF Terminal, Ended
<1>4. ASSUME NEW r \in Runs, StartRun(r) PROVE Same
  <2> DEFINE row == [rows[r] EXCEPT !.status = "RUNNING"]
  <2>1. rows[r].status = "PENDING"
    BY <1>4 DEF StartRun, RunOK, HandlerOK
  <2>2. rows' = [rows EXCEPT ![r] = row] \/ rows' = rows
    BY <1>4 DEF StartRun, Row
  <2>3. row.status = "RUNNING"
    BY DEF Row
  <2> HIDE DEF row
  <2>4. QED
    BY <1>1, <1>2, <2>1, <2>2, <2>3 DEF Terminal, Ended
<1>5. ASSUME NEW r \in Runs, PersistResult(r), rows' # rows
      PROVE  /\ r \notin Ended /\ Ended' = Ended \cup {r}
             /\ \A q \in Ended : rows'[q] = rows[q]
             /\ rows'[r].doneAt = NextCompletion
  <2>1. /\ rows[r].status = "RUNNING"
        /\ work[r].status \in Terminal
    BY <1>5 DEF PersistResult, RunOK, WorkerOK, WholeOutcome, Terminal
  <2>2. /\ rows'[r].status = work[r].status
        /\ rows'[r].doneAt = NextCompletion
        /\ \A q \in Runs \ {r} : rows'[q] = rows[q]
    BY <1>5, CompletionsCounted DEF PersistResult, Row
  <2>3. QED
    BY <2>1, <2>2 DEF Ended, Terminal
<1>6. QED
  BY <1>1, <1>3, <1>4, <1>5
  DEF Next, HandlerStep, WorkerStep, SubmitRefused, Submit, Reply, RunEngine,
      ComputeStatistics, Crash, vars

\* The numbers of the completions stay apart.
LEMMA DoneStep ==
  ASSUME RunsInv, DoneInv, [Next]_vars PROVE DoneInv'
<1>1. CASE Ended' = Ended /\ \A r \in Ended : rows'[r] = rows[r]
  BY <1>1 DEF DoneInv
<1>2. ASSUME NEW r \in Runs \ Ended, Ended' = Ended \cup {r},
             \A q \in Ended : rows'[q] = rows[q],
             rows'[r].doneAt = NextCompletion
      PROVE  DoneInv'
  <2> DEFINE n == Cardinality(Ended)
  <2>1. Cardinality(Ended') = n + 1
    BY <1>2, EndedFinite, FS_AddElement
  <2>2. n \in Nat /\ rows'[r].doneAt = n + 1
    BY <1>2, EndedFinite
  <2>3. \A q \in Ended : rows[q].doneAt \in Nat
    BY DEF RunsInv, TypeOK, Row, Ended
  <2>4. \A q \in Ended : rows'[q].doneAt \in Nat /\ rows'[q].doneAt >= 1 /\ rows'[q].doneAt <= n
    BY <1>2, <2>3 DEF DoneInv
  <2> HIDE DEF n
  <2>5. \A q \in Ended' : rows'[q].doneAt >= 1 /\ rows'[q].doneAt <= n + 1
    BY <1>2, <2>2, <2>4
  <2>6. \A q \in Ended : rows'[q].doneAt # rows'[r].doneAt
    BY <2>2, <2>4
  <2>7. \A p, q \in Ended : rows'[q].doneAt = rows'[p].doneAt => q = p
    BY <1>2 DEF DoneInv
  <2>8. \A p, q \in Ended' : rows'[q].doneAt = rows'[p].doneAt => q = p
    BY <1>2, <2>6, <2>7
  <2>9. QED
    BY <2>1, <2>5, <2>8 DEF DoneInv
<1>3. QED
  BY <1>1, <1>2, RunsEndOnce
-----------------------------------------------------------------------------
(* The walk *)

Listed(user) == {r \in Runs : Selected(r, user)}

WalkInv ==
  /\ walk \in Walk
  /\ walk.page >= 1
  /\ walk.pc = "idle" => walk.page = 1 /\ walk.seen = {} /\ walk.due = {}
  /\ walk.pc # "idle" => walk.owner \in Owners
  /\ walk.seen \subseteq Listed(walk.owner)
  /\ walk.due \subseteq Listed(walk.owner)
  /\ walk.pc = "select" => walk.total <= Cardinality(Listed(walk.owner))
  /\ walk.pc \in {"count", "select"} =>
       \A r \in walk.due : Place(r, walk.owner) < Offset(walk.page) => r \in walk.seen

HistoryInv ==
  /\ RunsInv
  /\ DoneInv
  /\ WalkInv
  /\ PageKeepsItsPromise
  /\ NothingMissedWhilePaging

\* What is listed has ended, and is finitely much.
LEMMA ListedFinite ==
  ASSUME NEW user
  PROVE  /\ Listed(user) \subseteq Ended
         /\ IsFiniteSet(Listed(user))
         /\ Cardinality(Listed(user)) \in Nat
<1>1. Listed(user) \in SUBSET Runs /\ Listed(user) \subseteq Ended
  BY DEF Listed, Selected, Ended, Terminal
<1>2. IsFiniteSet(Listed(user))
  BY <1>1, RunsAssumption, FS_Subset
<1>3. QED
  BY <1>1, <1>2, FS_CardinalityType

\* Pages are counted from one, and follow each other.
LEMMA OffsetsFollow ==
  ASSUME NEW page \in Nat, page >= 1
  PROVE  Offset(page) \in Nat /\ Offset(page + 1) = Offset(page) + PageLimit
<1>1. PageLimit \in Nat
  BY PageAssumption
<1>2. page - 1 \in Nat /\ (page + 1) - 1 = (page - 1) + 1
  OBVIOUS
<1>3. (page - 1) * PageLimit \in Nat
  BY <1>1, <1>2
<1>4. ((page - 1) + 1) * PageLimit = (page - 1) * PageLimit + PageLimit
  BY <1>1, <1>2
<1>5. QED
  BY <1>2, <1>3, <1>4 DEF Offset

\* A page is as full as what is listed allows.
LEMMA PageIsWindow ==
  ASSUME RunsInv, DoneInv, NEW user, NEW page \in Nat, page >= 1
  PROVE  LET W == Page(page, user) IN
         /\ W \subseteq Listed(user)
         /\ Cardinality(W) \in Nat
         /\ \A r \in Listed(user) :
              /\ Place(r, user) \in Nat
              /\ Offset(page) <= Place(r, user) /\ Place(r, user) < Offset(page + 1)
                   => r \in W
         /\ \/ Cardinality(W) = PageLimit
            \/ /\ Cardinality(W) >= Cardinality(Listed(user)) - Offset(page)
               /\ \A r \in Listed(user) : Place(r, user) < Offset(page + 1)
<1> DEFINE L == Listed(user)
           key == [r \in L |-> rows[r].doneAt]
           off == Offset(page)
           W == Page(page, user)
           V == {r \in L : Rank(L, key, r) >= off /\ Rank(L, key, r) < off + PageLimit}
<1>1. L \subseteq Ended /\ IsFiniteSet(L)
  BY ListedFinite
<1>2. key \in [L -> Nat]
  BY DEF RunsInv, TypeOK, Row, Listed
<1>3. \A q, r \in L : key[q] = key[r] => q = r
  BY <1>1 DEF DoneInv
<1>4. off \in Nat /\ Offset(page + 1) = off + PageLimit /\ PageLimit \in Nat
  BY OffsetsFollow, PageAssumption
<1>5. \A r \in L : Place(r, user) = Rank(L, key, r)
  <2> TAKE r \in L
  <2>1. {y \in L : key[y] > key[r]} =
          {s \in Runs : Selected(s, user) /\ rows[s].doneAt > rows[r].doneAt}
    BY DEF Listed
  <2>2. QED
    BY <2>1 DEF Place, Rank
<1>6. \A r \in L : Rank(L, key, r) \in Nat
  <2> TAKE r \in L
  <2>1. Rank(L, key, r) \in 0..(Cardinality(L) - 1) /\ Cardinality(L) \in Nat
    BY <1>1, <1>2, RankBelow, ListedFinite
  <2>2. QED
    BY <2>1
<1>7. W = V
  BY <1>4, <1>5 DEF Page, Listed
<1>8. IsFiniteSet(V) /\ V \subseteq L
  BY <1>1, FS_Subset
<1>9. Cardinality(V) \in Nat
  BY <1>8, FS_CardinalityType
<1>10. \/ Cardinality(V) = PageLimit
       \/ /\ Cardinality(V) >= Cardinality(L) - off
          /\ \A r \in L : Rank(L, key, r) < off + PageLimit
  <2> HIDE DEF L, key, off
  <2>1. QED
    BY <1>1, <1>2, <1>3, <1>4, PageSize
<1>11. \A r \in L : off <= Rank(L, key, r) /\ Rank(L, key, r) < off + PageLimit => r \in V
  BY <1>4, <1>6
<1> HIDE DEF L, key, off, V, W
<1>12. /\ W \subseteq L
       /\ Cardinality(W) \in Nat
       /\ \A r \in L :
            /\ Place(r, user) \in Nat
            /\ off <= Place(r, user) /\ Place(r, user) < Offset(page + 1) => r \in W
       /\ \/ Cardinality(W) = PageLimit
          \/ /\ Cardinality(W) >= Cardinality(L) - off
             /\ \A r \in L : Place(r, user) < Offset(page + 1)
  BY <1>4, <1>5, <1>6, <1>7, <1>8, <1>9, <1>10, <1>11
<1>13. QED
  BY <1>12 DEF L, W, off

\* While runs go on, the list only grows and its members only move back.
LEMMA ListGrows ==
  ASSUME RunsInv, RunsInv', [Next]_vars, NEW user
  PROVE  /\ Listed(user) \subseteq Listed(user)'
         /\ Cardinality(Listed(user)) <= Cardinality(Listed(user)')
         /\ \A r \in Listed(user) :
              /\ Place(r, user) \in Nat /\ Place(r, user)' \in Nat
              /\ Place(r, user) <= Place(r, user)'
<1>1. \A r \in Ended : rows'[r] = rows[r]
  BY RunsEndOnce
<1>2. Listed(user) \subseteq Listed(user)'
  BY <1>1 DEF Listed, Selected, Ended, Terminal
<1>3. Listed(user)' \in SUBSET Runs
  BY DEF Listed
<1>4. Cardinality(Listed(user)) <= Cardinality(Listed(user)')
  <2>1. IsFiniteSet(Listed(user)')
    BY <1>3, RunsAssumption, FS_Subset
  <2>2. QED
    BY <1>2, <2>1, FS_Subset
<1>5. ASSUME NEW r \in Listed(user)
      PROVE  /\ Place(r, user) \in Nat /\ Place(r, user)' \in Nat
             /\ Place(r, user) <= Place(r, user)'
  <2> DEFINE A == {s \in Runs : Selected(s, user) /\ rows[s].doneAt > rows[r].doneAt}
             B == {s \in Runs : Selected(s, user)' /\ rows'[s].doneAt > rows'[r].doneAt}
  <2>1. rows'[r] = rows[r]
    BY <1>1 DEF Listed, Selected, Ended, Terminal
  <2>2. \A s \in A : rows'[s] = rows[s]
    BY <1>1 DEF Selected, Ended, Terminal
  <2>3. A \in SUBSET B
    BY <2>1, <2>2 DEF Selected
  <2>4. IsFiniteSet(B)
    BY RunsAssumption, FS_Subset
  <2>5. IsFiniteSet(A) /\ Cardinality(A) <= Cardinality(B)
    BY <2>3, <2>4, FS_Subset
  <2>6. Cardinality(A) \in Nat /\ Cardinality(B) \in Nat
    BY <2>4, <2>5, FS_CardinalityType
  <2>7. Place(r, user) = Cardinality(A) /\ Place(r, user)' = Cardinality(B)
    BY DEF Place
  <2> HIDE DEF A, B
  <2>8. QED
    BY <2>5, <2>6, <2>7
<1>6. QED
  BY <1>2, <1>4, <1>5
-----------------------------------------------------------------------------
(* The steps *)

\* A step of the runs leaves what the walk knows true.
LEMMA RunsKeepWalk ==
  ASSUME HistoryInv, RunsInv', [Next]_vars, walk' = walk
  PROVE  HistoryInv'
<1> USE DEF HistoryInv
<1>1. DoneInv'
  BY DoneStep
<1> PICK user : user = walk.owner
  OBVIOUS
<1>2. /\ Listed(user) \subseteq Listed(user)'
      /\ Cardinality(Listed(user)) <= Cardinality(Listed(user)')
      /\ \A r \in Listed(user) :
           /\ Place(r, user) \in Nat /\ Place(r, user)' \in Nat
           /\ Place(r, user) <= Place(r, user)'
  BY ListGrows
<1>3. /\ Cardinality(Listed(user)) \in Nat /\ Cardinality(Listed(user)') \in Nat
  <2>1. Listed(user)' \in SUBSET Runs
    BY DEF Listed
  <2>2. IsFiniteSet(Listed(user)')
    BY <2>1, RunsAssumption, FS_Subset
  <2>3. QED
    BY <2>2, ListedFinite, FS_CardinalityType
<1>4. walk.total \in Nat
  BY DEF WalkInv, Walk
<1>5. walk.pc = "select" => walk.total <= Cardinality(Listed(user)')
  BY <1>2, <1>3, <1>4 DEF WalkInv
<1>6. Offset(walk.page) \in Nat
  BY OffsetsFollow DEF WalkInv, Walk
<1>7. ASSUME walk.pc \in {"count", "select"}, NEW r \in walk.due,
             Place(r, user)' < Offset(walk.page)
      PROVE  r \in walk.seen
  <2>1. r \in Listed(user)
    BY DEF WalkInv
  <2>2. Place(r, user) < Offset(walk.page)
    BY <1>2, <1>6, <1>7, <2>1
  <2>3. QED
    BY <1>7, <2>2 DEF WalkInv
<1>8. WalkInv'
  <2>1. walk'.owner = user /\ Offset(walk.page)' = Offset(walk.page)
    BY DEF Offset
  <2>2. \A r : Place(r, walk.owner)' = Place(r, user)'
    BY <2>1 DEF Place, Selected
  <2>3. Listed(walk.owner)' = Listed(user)'
    BY <2>1 DEF Listed, Selected
  <2>4. /\ walk'.seen \subseteq Listed(walk.owner)'
        /\ walk'.due \subseteq Listed(walk.owner)'
    BY <1>2, <2>3 DEF WalkInv
  <2>5. walk'.pc = "select" => walk'.total <= Cardinality(Listed(walk.owner)')
    BY <1>5, <2>3
  <2>6. walk'.pc \in {"count", "select"} =>
          \A r \in walk'.due : Place(r, walk.owner)' < Offset(walk.page)' => r \in walk'.seen
    BY <1>7, <2>1, <2>2
  <2>7. QED
    BY <2>4, <2>5, <2>6 DEF WalkInv
<1>9. PageKeepsItsPromise' /\ NothingMissedWhilePaging'
  BY DEF PageKeepsItsPromise, NothingMissedWhilePaging, Offset
<1>10. QED
  BY <1>1, <1>8, <1>9

\* While the walk steps, the runs stand still.
LEMMA RunsStandStill ==
  ASSUME RunsInv, DoneInv, UNCHANGED vars
  PROVE  /\ RunsInv' /\ DoneInv'
         /\ \A u : Listed(u)' = Listed(u)
         /\ \A r, u : Place(r, u)' = Place(r, u)
         /\ \A p : Offset(p)' = Offset(p)
<1>1. RunsInv'
  BY RunsInvStep
<1>2. DoneInv'
  BY DoneStep
<1>3. rows' = rows
  BY DEF vars
<1>4. /\ \A u : Listed(u)' = Listed(u)
      /\ \A r, u : Place(r, u)' = Place(r, u)
      /\ \A p : Offset(p)' = Offset(p)
  BY <1>3 DEF Listed, Place, Selected, Offset
<1>5. QED
  BY <1>1, <1>2, <1>4

\* A walk that begins has everything before it.
LEMMA BeginStep ==
  ASSUME HistoryInv, NEW user \in Owners, BeginWalk(user)
  PROVE  HistoryInv'
<1> USE DEF HistoryInv
<1> DEFINE new == [walk EXCEPT !.pc = "count", !.owner = user, !.due = Listed(user)]
<1>1. walk' = new
  BY DEF BeginWalk, Listed
<1>2. walk \in Walk /\ walk.pc = "idle" /\ walk.seen = {} /\ walk.page = 1
  BY DEF BeginWalk, WalkInv
<1>3. Listed(user) \in SUBSET Runs
  BY DEF Listed
<1>4. /\ new \in Walk /\ new.pc = "count" /\ new.owner = user
      /\ new.due = Listed(user) /\ new.seen = {} /\ new.page = 1
      /\ new.reply = walk.reply
  BY <1>2, <1>3 DEF Walk
<1> HIDE DEF new
<1>5. /\ RunsInv' /\ DoneInv'
      /\ \A u : Listed(u)' = Listed(u)
      /\ \A r, u : Place(r, u)' = Place(r, u)
      /\ \A p : Offset(p)' = Offset(p)
  BY RunsStandStill DEF BeginWalk
<1>6. \A r \in Listed(user) : ~(Place(r, user) < Offset(1))
  <2>1. Offset(1) = 0
    BY PageAssumption DEF Offset
  <2>2. \A r \in Listed(user) : Place(r, user) \in Nat
    BY PageIsWindow
  <2>3. QED
    BY <2>1, <2>2
<1>7. /\ Listed(walk.owner)' = Listed(user)
      /\ \A r : Place(r, walk.owner)' = Place(r, user)
      /\ Offset(walk.page)' = Offset(1)
  <2>1. walk'.owner = user /\ walk'.page = 1
    BY <1>1, <1>4
  <2>2. rows' = rows
    BY DEF BeginWalk, vars
  <2>3. QED
    BY <2>1, <2>2 DEF Listed, Place, Selected, Offset
<1>8. WalkInv'
  BY <1>1, <1>4, <1>6, <1>7 DEF WalkInv
<1>9. PageKeepsItsPromise' /\ NothingMissedWhilePaging'
  BY <1>1, <1>4 DEF PageKeepsItsPromise, NothingMissedWhilePaging, Offset
<1>10. QED
  BY <1>5, <1>8, <1>9

\* A step within the walk: the owner is known, and so is what is due.
LEMMA WalkStep ==
  ASSUME HistoryInv, UNCHANGED vars, NEW new \in Walk, walk' = new,
         new.owner = walk.owner, new.due = walk.due,
         walk.pc \in {"count", "select"}, new.pc # "idle", new.page >= 1,
         new.seen \subseteq Listed(walk.owner),
         new.pc = "select" => new.total <= Cardinality(Listed(walk.owner)),
         new.pc # "ended" =>
           \A r \in walk.due :
             Place(r, walk.owner) < Offset(new.page) => r \in new.seen,
         new.pc = "ended" => walk.due \subseteq new.seen,
         new.reply = walk.reply \/ PageKeepsItsPromise'
  PROVE  HistoryInv'
<1> USE DEF HistoryInv
<1>1. RunsInv' /\ DoneInv'
  BY RunsStandStill
<1>2. rows' = rows
  BY DEF vars
<1>3. /\ Listed(walk.owner)' = Listed(walk.owner)
      /\ \A r : Place(r, walk.owner)' = Place(r, walk.owner)
      /\ Offset(walk.page)' = Offset(new.page)
  BY <1>2 DEF Listed, Place, Selected, Offset
<1>4. WalkInv'
  BY <1>3 DEF WalkInv
<1>5. PageKeepsItsPromise'
  BY DEF PageKeepsItsPromise, Offset
<1>6. NothingMissedWhilePaging'
  BY DEF NothingMissedWhilePaging
<1>7. QED
  BY <1>1, <1>4, <1>5, <1>6

\* COUNT: what is counted is what is listed now, and will be later.
LEMMA CountStep ==
  ASSUME HistoryInv, CountRuns PROVE HistoryInv'
<1> USE DEF HistoryInv
<1> DEFINE total == Cardinality({r \in Runs : Counted(r, walk.owner)})
           new == [walk EXCEPT !.pc = "select", !.total = total]
<1>1. walk' = new /\ walk.pc = "count" /\ UNCHANGED vars
  BY DEF CountRuns
<1>2. total = Cardinality(Listed(walk.owner)) /\ total \in Nat
  <2>1. {r \in Runs : Counted(r, walk.owner)} = Listed(walk.owner)
    BY DEF Counted, Listed, Selected
  <2>2. QED
    BY <2>1, ListedFinite
<1> HIDE DEF total
<1>3. walk \in Walk
  BY DEF WalkInv
<1>4. /\ new \in Walk /\ new.pc = "select" /\ new.owner = walk.owner
      /\ new.due = walk.due /\ new.seen = walk.seen /\ new.page = walk.page
      /\ new.reply = walk.reply /\ new.total = total
  BY <1>2, <1>3 DEF Walk
<1> HIDE DEF new
<1>5. /\ new.page >= 1 /\ new.seen \subseteq Listed(walk.owner)
      /\ \A r \in walk.due :
            Place(r, walk.owner) < Offset(new.page) => r \in new.seen
  BY <1>1, <1>4 DEF WalkInv
<1>6. new.total <= Cardinality(Listed(walk.owner))
  BY <1>2, <1>4
<1>7. QED
  BY <1>1, <1>4, <1>5, <1>6, WalkStep

\* A request that fails is made again.
LEMMA FailStep ==
  ASSUME HistoryInv, ListFails PROVE HistoryInv'
<1> USE DEF HistoryInv
<1> DEFINE new == [walk EXCEPT !.pc = "count"]
<1>1. walk' = new /\ walk.pc = "select" /\ UNCHANGED vars
  BY DEF ListFails
<1>2. walk \in Walk
  BY DEF WalkInv
<1>3. /\ new \in Walk /\ new.pc = "count" /\ new.owner = walk.owner
      /\ new.due = walk.due /\ new.seen = walk.seen /\ new.page = walk.page
      /\ new.reply = walk.reply
  BY <1>2 DEF Walk
<1> HIDE DEF new
<1>4. /\ new.page >= 1 /\ new.seen \subseteq Listed(walk.owner)
      /\ \A r \in walk.due :
            Place(r, walk.owner) < Offset(new.page) => r \in new.seen
  BY <1>1, <1>3 DEF WalkInv
<1>5. QED
  BY <1>1, <1>3, <1>4, WalkStep

\* SELECT: the page closes the gap between the pages seen and the next one.
LEMMA SelectStep ==
  ASSUME HistoryInv, SelectPage PROVE HistoryInv'
<1> USE DEF HistoryInv
<1> DEFINE W == Page(walk.page, walk.owner)
           reply == [page |-> walk.page, total |-> walk.total, runs |-> W]
           pc == IF Cardinality(W) < PageLimit THEN "ended" ELSE "count"
           next == walk.page + 1
           seen == walk.seen \cup W
           new == [walk EXCEPT !.pc = pc, !.page = next, !.reply = reply,
                               !.seen = seen]
           L == Listed(walk.owner)
<1>1. walk' = new /\ walk.pc = "select" /\ UNCHANGED vars
  BY DEF SelectPage
<1>2. walk \in Walk /\ walk.page \in Nat /\ walk.page >= 1 /\ walk.total \in Nat
  BY DEF WalkInv, Walk
<1>3. /\ W \subseteq L
      /\ Cardinality(W) \in Nat
      /\ \A r \in L :
           /\ Place(r, walk.owner) \in Nat
           /\ Offset(walk.page) <= Place(r, walk.owner) /\ Place(r, walk.owner) < Offset(walk.page + 1)
                => r \in W
      /\ \/ Cardinality(W) = PageLimit
         \/ /\ Cardinality(W) >= Cardinality(L) - Offset(walk.page)
            /\ \A r \in L : Place(r, walk.owner) < Offset(walk.page + 1)
  BY <1>2, PageIsWindow
<1>4. /\ walk.seen \subseteq L /\ walk.due \subseteq L
      /\ walk.total <= Cardinality(L) /\ Cardinality(L) \in Nat
      /\ \A r \in walk.due :
           Place(r, walk.owner) < Offset(walk.page) => r \in walk.seen
  BY <1>1, ListedFinite DEF WalkInv
<1>5. Offset(walk.page) \in Nat /\ Offset(walk.page + 1) \in Nat /\ PageLimit \in Nat
  BY <1>2, OffsetsFollow, PageAssumption
<1>6. \A r \in walk.due :
        Place(r, walk.owner) < Offset(walk.page + 1) => r \in walk.seen \cup W
  BY <1>3, <1>4, <1>5
<1>7. pc = "ended" => walk.due \subseteq walk.seen \cup W
  BY <1>3, <1>4, <1>5, <1>6
<1>8. Cardinality(W) = PageLimit \/ Cardinality(W) >= walk.total - Offset(walk.page)
  BY <1>2, <1>3, <1>4, <1>5
<1>9. W \subseteq Runs /\ L \subseteq Runs
  BY <1>3 DEF Listed
<1>10. reply \in ListReply
  BY <1>2, <1>9 DEF ListReply
<1>11. pc \in {"ended", "count"}
  OBVIOUS
<1>12. /\ new \in Walk /\ new.pc = pc /\ new.owner = walk.owner
       /\ new.due = walk.due /\ new.seen = walk.seen \cup W
       /\ new.page = walk.page + 1 /\ new.reply = reply
  <2>1. seen \in SUBSET Runs /\ next \in Nat /\ next = walk.page + 1
        /\ seen = walk.seen \cup W
    BY <1>2, <1>9 DEF Walk
  <2> HIDE DEF W, L, pc, reply, next, seen
  <2>2. new \in Walk /\ new.pc = pc /\ new.owner = walk.owner
    BY <1>2, <1>10, <1>11, <2>1 DEF Walk
  <2>3. /\ new.due = walk.due /\ new.seen = seen /\ new.page = next
        /\ new.reply = reply
    BY <1>2 DEF Walk
  <2>4. QED
    BY <2>1, <2>2, <2>3
<1> HIDE DEF W, L, pc, reply
<1> HIDE DEF new
<1>13. PageKeepsItsPromise'
  <2>1. walk'.reply.page = walk.page /\ walk'.reply.total = walk.total
        /\ walk'.reply.runs = W
    BY <1>1, <1>12 DEF reply
  <2>2. QED
    BY <1>8, <2>1 DEF PageKeepsItsPromise, Offset
<1>14. QED
  BY <1>1, <1>2, <1>3, <1>4, <1>6, <1>7, <1>11, <1>12, <1>13, WalkStep DEF L
-----------------------------------------------------------------------------
(* The theorems *)

\* The inductive invariant of the history holds in every reachable state.
THEOREM HistoryInvariant == HistorySpec => []HistoryInv
<1>1. HistoryInit => HistoryInv
  <2> SUFFICES ASSUME HistoryInit PROVE HistoryInv
    OBVIOUS
  <2>1. RunsInv
    BY RunsInvInit DEF HistoryInit
  <2>2. Ended = {}
    BY DEF HistoryInit, Init, Ended, NoRow, Terminal
  <2>3. DoneInv
    BY <2>2 DEF DoneInv
  <2>4. WalkInv
    BY DEF HistoryInit, WalkInv, Walk, ListReply, NoReply
  <2>5. PageKeepsItsPromise /\ NothingMissedWhilePaging
    BY DEF HistoryInit, PageKeepsItsPromise, NothingMissedWhilePaging, NoReply
  <2>6. QED
    BY <2>1, <2>3, <2>4, <2>5 DEF HistoryInv
<1>2. HistoryInv /\ [HistoryNext]_historyVars => HistoryInv'
  <2> SUFFICES ASSUME HistoryInv, [HistoryNext]_historyVars PROVE HistoryInv'
    OBVIOUS
  <2>1. CASE [Next]_vars /\ walk' = walk
    <3>1. RunsInv'
      BY <2>1, RunsInvStep DEF HistoryInv
    <3>2. QED
      BY <2>1, <3>1, RunsKeepWalk
  <2>2. CASE UNCHANGED historyVars
    BY <2>1, <2>2 DEF historyVars, vars
  <2>3. QED
    BY <2>1, <2>2, BeginStep, CountStep, SelectStep, FailStep DEF HistoryNext
<1>3. QED
  BY <1>1, <1>2, PTL DEF HistorySpec

\* The walk of a client is well typed in every reachable state.
THEOREM HistoryTypeCorrect == HistorySpec => []WalkTypeOK
<1>1. HistoryInv => WalkTypeOK
  BY DEF HistoryInv, WalkInv, WalkTypeOK, RunsInv
<1>2. QED
  BY <1>1, HistoryInvariant, PTL

\* What a page of the history has shown opens, now and later, for its owner.
THEOREM ListedRunsOpen == HistorySpec => []EveryListedRunOpens
<1>1. HistoryInv => EveryListedRunOpens
  <2> SUFFICES ASSUME HistoryInv, NEW r \in walk.seen
               PROVE  Opens(r, walk.owner) /\ rows[r].outcome.trades > 0
    BY DEF EveryListedRunOpens
  <2>1. r \in Runs /\ Selected(r, walk.owner)
    BY DEF HistoryInv, WalkInv, Listed
  <2>2. rows[r].outcome.result = "whole"
    BY <2>1 DEF HistoryInv, RunsInv, RunOK, RowOK, WholeOutcome, Selected
  <2>3. QED
    BY <2>1, <2>2 DEF Opens, Selected, StatusResponse, TradesAvailable
<1>2. QED
  BY <1>1, HistoryInvariant, PTL

\* No page is emptier than the total in its reply announces.
THEOREM PromiseKept == HistorySpec => []PageKeepsItsPromise
<1>1. HistoryInv => PageKeepsItsPromise
  BY DEF HistoryInv
<1>2. QED
  BY <1>1, HistoryInvariant, PTL

\* A walk to the last page misses no run that had completed before it began.
THEOREM NothingMissed == HistorySpec => []NothingMissedWhilePaging
<1>1. HistoryInv => NothingMissedWhilePaging
  BY DEF HistoryInv
<1>2. QED
  BY <1>1, HistoryInvariant, PTL
=============================================================================
