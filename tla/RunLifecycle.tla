--------------------------- MODULE RunLifecycle ---------------------------
(***************************************************************************)
(* What the backtest_runs table promises its readers: a run is recorded    *)
(* for one owner, starts, and ends at most once, either with a complete    *)
(* result or with an error.  BacktestRuns implements this specification.   *)
(***************************************************************************)
CONSTANTS Runs, Owners, NoOwner

VARIABLES
  status,   \* status[r]: the status column, "absent" before the INSERT
  owner,    \* owner[r]: who may read the run
  outcome   \* outcome[r]: what a reader gets: "none", "result" or "error"

lifecycleVars == <<status, owner, outcome>>

LifecycleInit ==
  /\ status = [r \in Runs |-> "absent"]
  /\ owner = [r \in Runs |-> NoOwner]
  /\ outcome = [r \in Runs |-> "none"]

Record(r, o) ==
  /\ status[r] = "absent"
  /\ status' = [status EXCEPT ![r] = "PENDING"]
  /\ owner' = [owner EXCEPT ![r] = o]
  /\ outcome' = outcome

Start(r) ==
  /\ status[r] = "PENDING"
  /\ status' = [status EXCEPT ![r] = "RUNNING"]
  /\ UNCHANGED <<owner, outcome>>

Finish(r, verdict, what) ==
  /\ status[r] = "RUNNING"
  /\ status' = [status EXCEPT ![r] = verdict]
  /\ outcome' = [outcome EXCEPT ![r] = what]
  /\ owner' = owner

LifecycleNext ==
  \E r \in Runs :
    \/ \E o \in Owners : Record(r, o)
    \/ Start(r)
    \/ Finish(r, "COMPLETED", "result")
    \/ Finish(r, "FAILED", "error")

LifecycleSpec == LifecycleInit /\ [][LifecycleNext]_lifecycleVars
=============================================================================
