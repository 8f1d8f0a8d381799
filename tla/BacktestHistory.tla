-------------------------- MODULE BacktestHistory --------------------------
(***************************************************************************)
(* GET /backtests: a client walks through the pages of its completed runs  *)
(* while BacktestRuns goes on underneath.  ListCompleted is two statements *)
(* on one table, a COUNT and a SELECT, with no transaction around them, so *)
(* a run may complete between the two, and between two pages.              *)
(***************************************************************************)
EXTENDS BacktestRuns

CONSTANT PageLimit  \* the limit parameter, after parsePagination

ASSUME PageAssumption == PageLimit \in Nat \ {0}

VARIABLE walk  \* the client's walk: the request it is in, and what it got

historyVars == <<rows, submit, work, abandoned, walk>>

ListReply == [page : Nat, total : Nat, runs : SUBSET Runs]

Walk == [pc : {"idle", "count", "select", "ended"},
         owner : Owners \cup {NoOwner},
         page : Nat,
         total : Nat,          \* the COUNT of the request in progress
         reply : ListReply,    \* the latest 200 reply
         seen : SUBSET Runs,   \* every run some page has shown
         due : SUBSET Runs]    \* the runs a complete walk has to show

WalkTypeOK == TypeOK /\ walk \in Walk

NoReply == [page |-> 0, total |-> 0, runs |-> {}]

HistoryInit ==
  /\ Init
  /\ walk = [pc |-> "idle", owner |-> NoOwner, page |-> 1, total |-> 0,
             reply |-> NoReply, seen |-> {}, due |-> {}]
-----------------------------------------------------------------------------
(* ListCompleted *)

\* Mutant: runs without trades are counted although they are not listed.
CountsEmptyRuns(r, user) ==
  rows[r].status = "COMPLETED" /\ rows[r].doneAt # 0 /\ rows[r].owner = user

\* The WHERE of the COUNT ...
Counted(r, user) ==
  /\ rows[r].status = "COMPLETED"
  /\ rows[r].doneAt # 0
  /\ rows[r].outcome.trades > 0
  /\ rows[r].owner = user

\* Mutant: the SELECT is not scoped to the user.
SelectsEverybody(r, user) ==
  rows[r].status = "COMPLETED" /\ rows[r].doneAt # 0 /\ rows[r].outcome.trades > 0

\* ... and the WHERE of the SELECT.
Selected(r, user) ==
  /\ rows[r].status = "COMPLETED"
  /\ rows[r].doneAt # 0
  /\ rows[r].outcome.trades > 0
  /\ rows[r].owner = user

\* Mutant: pages counted from zero.
OffsetFromZero(page) == page * PageLimit

Offset(page) == (page - 1) * PageLimit

\* ORDER BY completed_at DESC: a run's place is the number of runs before it.
Place(r, user) ==
  Cardinality({s \in Runs : Selected(s, user) /\ rows[s].doneAt > rows[r].doneAt})

Page(page, user) ==
  {r \in Runs : /\ Selected(r, user)
                /\ Place(r, user) >= Offset(page)
                /\ Place(r, user) < Offset(page) + PageLimit}
-----------------------------------------------------------------------------
BeginWalk(user) ==
  /\ walk.pc = "idle"
  /\ walk' = [walk EXCEPT !.pc = "count", !.owner = user,
                          !.due = {r \in Runs : Selected(r, user)}]
  /\ UNCHANGED vars

CountRuns ==
  /\ walk.pc = "count"
  /\ walk' = [walk EXCEPT !.pc = "select",
       !.total = Cardinality({r \in Runs : Counted(r, walk.owner)})]
  /\ UNCHANGED vars

\* The client asks for the next page until one is not full.
SelectPage ==
  /\ walk.pc = "select"
  /\ LET page == Page(walk.page, walk.owner)
     IN walk' = [walk EXCEPT
          !.pc = IF Cardinality(page) < PageLimit THEN "ended" ELSE "count",
          !.page = @ + 1,
          !.reply = [page |-> walk.page, total |-> walk.total, runs |-> page],
          !.seen = @ \cup page]
  /\ UNCHANGED vars

\* A statement fails, or a row makes no summary (its slug has left the
\* registry): 500, and the client asks for the page again.
ListFails ==
  /\ walk.pc = "select"
  /\ walk' = [walk EXCEPT !.pc = "count"]
  /\ UNCHANGED vars

\* GET /backtests/:id and /trades: WHERE id = $1 AND user_id = $2, and what the
\* handlers make of the row.
Opens(r, user) ==
  /\ rows[r].owner = user
  /\ StatusResponse(r).result = "whole" /\ TradesAvailable(r)

HistoryNext ==
  \/ Next /\ walk' = walk
  \/ \E user \in Owners : BeginWalk(user)
  \/ CountRuns
  \/ SelectPage
  \/ ListFails

HistorySpec == HistoryInit /\ [][HistoryNext]_historyVars
-----------------------------------------------------------------------------
(* Properties *)

\* A link in the history never goes dead or to somebody else's run: every run a
\* page has shown can be opened afterwards, with its result and its trades,
\* by the user it was shown to, whatever happened while the list was read or
\* has happened since (three queries with three WHERE clauses agree).
EveryListedRunOpens ==
  \A r \in walk.seen : Opens(r, walk.owner) /\ rows[r].outcome.trades > 0

\* What the comment on ListCompleted is about: a page is never emptier than
\* the total in the same reply announces.  (It may be fuller: a run that
\* completes between COUNT and SELECT is on the page and not in the total.)
PageKeepsItsPromise ==
  LET announced == walk.reply.total - Offset(walk.reply.page)
  IN walk.reply.page > 0 =>
       \/ Cardinality(walk.reply.runs) = PageLimit
       \/ Cardinality(walk.reply.runs) >= announced

\* A walk to the last page shows every run that had completed before it began,
\* although runs that complete meanwhile move the others to later pages.
NothingMissedWhilePaging ==
  walk.pc = "ended" => walk.due \subseteq walk.seen
=============================================================================
