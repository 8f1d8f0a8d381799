------------------------ MODULE StrategyPagesProofs ------------------------
(***************************************************************************)
(* What TLC checks of StrategyPages for two days, runs and requests,       *)
(* proved for any.  The tables only grow: days are added to the calendar,  *)
(* a completed run stays completed and stays its owner's.  What a request  *)
(* has read is therefore still there when it reads on.                     *)
(***************************************************************************)
EXTENDS StrategyPages, FiniteSetTheorems, WellFoundedInduction, TLAPS

Candles == UNION {UNION Batches[d] : d \in Days}
Statuses == {"absent", "PENDING", "RUNNING", "COMPLETED", "FAILED"}
Recorded == {r \in Runs : status[r] # "absent"}

\* The tables, as the specifications of their writers leave them.
TablesOK ==
    /\ calendar \in [Days -> SUBSET Candles]
    /\ status \in [Runs -> Statuses]
    /\ owner \in [Runs -> Owners \cup {NoOwner}]
    /\ outcome \in [Runs -> {"none", "result", "error"}]
    /\ \A r \in Runs : status[r] = "COMPLETED" => outcome[r] = "result"
    /\ IsFiniteSet(StoredDays) /\ IsFiniteSet(Recorded)

\* What a page has read of the candles is still there.
DateOK(p) ==
    /\ p.pc \notin {"idle", "failed"} => p.since <= Latest(StoredDays)
    /\ p.pc \in {"lastRun", "render", "send", "sent"} =>
        p.since <= p.maxDate /\ p.maxDate <= Latest(StoredDays)
    /\ p.pc = "send" => IF p.shared THEN p.maxDate = NoDay ELSE p.limit = p.maxDate
    /\ p.pc = "sent" => p.limit = p.maxDate

\* What a page has read of the runs is still the last of its user, or was.
RunOK(p) ==
    /\ p.pc # "idle" => p.user \in Owners /\ p.sawRun \in Completed(p.user) \cup {NoRun}
    /\ p.pc \in {"render", "send", "sent"} =>
        p.run \in Completed(p.user) \cup {NoRun} /\ p.sawRun <= p.run

FetchOK(f) ==
    /\ f.pc \in {"second", "ready"} => f.held \subseteq DaysOf(Trade)
    /\ f.pc = "ready" => f.held \subseteq f.tradeDays

\* Nothing is written into the registry; its constraints have no date.
PagesInv ==
    /\ TablesOK /\ PagesTypeOK
    /\ registry = NoDay
    /\ \A q \in Requests : /\ page[q].detail => DateOK(page[q])
                           /\ RunOK(page[q])
                           /\ FetchOK(fetch[q])
-----------------------------------------------------------------------------
(* Latest *)

\* Among finite sets there is one that none of them is strictly inside of.
LEMMA LeastSet ==
  ASSUME NEW C, C # {}, \A c \in C : IsFiniteSet(c)
  PROVE  \E m \in C : \A c \in C : c \subseteq m => c = m
<1> DEFINE S == UNION C
<1>1. C \subseteq FiniteSubsetsOf(S)
  BY DEF FiniteSubsetsOf
<1>2. PICK m \in C : \A c \in C : ~(<<c, m>> \in StrictSubsetOrdering(S))
  BY <1>1, FS_StrictSubsetOrderingWellFounded, WFMin
<1> QED
  BY <1>2 DEF StrictSubsetOrdering

\* A finite set of integers that is not empty has a greatest element, and
\* Max is one.
LEMMA MaxOfFinite ==
  ASSUME NEW S \in SUBSET Int, IsFiniteSet(S), S # {}
  PROVE  Max(S) \in S /\ \A y \in S : Max(S) >= y
<1> DEFINE C == {T \in SUBSET S : T # {} /\ ~(\E x \in T : \A y \in T : x >= y)}
<1>1. SUFFICES ASSUME C # {} PROVE FALSE
  BY DEF Max
<1>2. \A c \in C : IsFiniteSet(c)
  BY FS_Subset
<1>3. \E m \in C : \A c \in C : c \subseteq m => c = m
  <2> HIDE DEF C
  <2> QED
    BY <1>1, <1>2, LeastSet
<1>4. PICK m \in C : \A c \in C : c \subseteq m => c = m
  BY <1>3
<1>5. PICK x \in m : TRUE
  OBVIOUS
<1>6. x \in Int /\ m \subseteq Int /\ ~(\E z \in m : \A y \in m : z >= y)
  BY <1>5
<1>7. CASE m \ {x} = {}
  BY <1>6, <1>7
<1>8. CASE m \ {x} # {}
  <2>1. m \ {x} \notin C
    BY <1>4, <1>5
  <2>2. m \ {x} \in SUBSET S
    BY <1>5
  <2>3. PICK z \in m \ {x} : \A y \in m \ {x} : z >= y
    BY <1>8, <2>1, <2>2
  <2>4. CASE z >= x
    BY <1>6, <2>3, <2>4
  <2>5. CASE ~(z >= x)
    BY <1>6, <2>3, <2>5
  <2> QED
    BY <2>4, <2>5
<1> QED
  BY <1>7, <1>8

\* Latest is a member of a finite set, or the number that stands for none.
LEMMA LatestOf ==
    ASSUME NEW S \in SUBSET Nat, IsFiniteSet(S)
    PROVE  /\ Latest(S) \in S \cup {0} /\ Latest(S) \in Nat
           /\ \A y \in S : y <= Latest(S)
<1>1. IsFiniteSet(S \cup {0}) /\ S \cup {0} \in SUBSET Int /\ S \cup {0} # {}
    BY FS_AddElement
<1>2. Latest(S) \in S \cup {0} /\ \A y \in S \cup {0} : Latest(S) >= y
    BY <1>1, MaxOfFinite DEF Latest
<1>3. Latest(S) \in Nat
    <2>1. S \cup {0} \subseteq Nat
        OBVIOUS
    <2> QED
        BY <1>2, <2>1
<1>4. ASSUME NEW y \in S PROVE y <= Latest(S)
    BY <1>2, <1>3
<1> QED
    BY <1>2, <1>3, <1>4

\* The latest of more is not earlier.
LEMMA LatestGrows ==
    ASSUME NEW S, NEW T \in SUBSET Nat, S \subseteq T, IsFiniteSet(T)
    PROVE  Latest(S) \in Nat /\ Latest(T) \in Nat /\ Latest(S) <= Latest(T)
<1>1. S \in SUBSET Nat /\ IsFiniteSet(S)
    BY FS_Subset
<1>2. Latest(S) \in S \cup {0} /\ Latest(S) \in Nat
    BY <1>1, LatestOf
<1>3. Latest(T) \in Nat /\ \A y \in T : y <= Latest(T)
    BY LatestOf
<1> QED
    BY <1>2, <1>3
-----------------------------------------------------------------------------
(* The writers *)

\* What a step of a writer, or of anybody, does to the tables.
TablesGrow ==
    /\ TablesOK'
    /\ StoredDays \subseteq StoredDays'
    /\ DaysOf(Trade) \subseteq DaysOf(Trade)'
    /\ \A user \in Owners : Completed(user) \subseteq Completed(user)'

\* A sync adds candles to one day.
LEMMA SyncGrows ==
    ASSUME TablesOK, Sync
    PROVE  TablesGrow
<1>0. PICK d \in Days : \E batch \in Batches[d] : StoreBatch(d, batch)
    BY DEF Sync, CalendarNext
<1>1. PICK batch \in Batches[d] :
          calendar' = [calendar EXCEPT ![d] = calendar[d] \cup {c \in batch : ~Stores(c, d)}]
    BY <1>0 DEF StoreBatch
<1>2. calendar \in [Days -> SUBSET Candles] /\ UNCHANGED lifecycleVars
    BY DEF TablesOK, Sync
<1>3. {c \in batch : ~Stores(c, d)} \subseteq Candles
    BY <1>1 DEF Candles
<1>4. /\ calendar' \in [Days -> SUBSET Candles]
      /\ \A x \in Days : calendar[x] \subseteq calendar'[x]
      /\ \A x \in Days : x # d => calendar'[x] = calendar[x]
    BY <1>1, <1>2, <1>3
<1>5. StoredDays \subseteq StoredDays' /\ StoredDays' \subseteq StoredDays \cup {d}
    BY <1>4 DEF StoredDays
<1>6. IsFiniteSet(StoredDays')
    <2>1. IsFiniteSet(StoredDays \cup {d})
        BY FS_AddElement DEF TablesOK
    <2> QED
        BY <1>5, <2>1, FS_Subset
<1>7. DaysOf(Trade) \subseteq DaysOf(Trade)'
    BY <1>4 DEF DaysOf
<1>8. UNCHANGED <<status, owner, outcome, Recorded>>
      /\ \A user \in Owners : Completed(user)' = Completed(user)
    BY <1>2 DEF lifecycleVars, Recorded, Completed
<1> QED
    BY <1>4, <1>5, <1>6, <1>7, <1>8 DEF TablesOK, TablesGrow

\* The life of a run: a completed one stays as it is.
LEMMA RunsGrow ==
    ASSUME TablesOK, RunBacktests
    PROVE  TablesGrow
<1>1. LifecycleNext /\ UNCHANGED calendar
    BY DEF RunBacktests
<1>2. UNCHANGED StoredDays /\ DaysOf(Trade)' = DaysOf(Trade)
    BY <1>1 DEF StoredDays, DaysOf
<1>3. PICK r \in Runs : \/ \E o \in Owners : Record(r, o)
                        \/ Start(r)
                        \/ Finish(r, "COMPLETED", "result")
                        \/ Finish(r, "FAILED", "error")
    BY <1>1 DEF LifecycleNext
<1>4. /\ status' \in [Runs -> Statuses] /\ owner' \in [Runs -> Owners \cup {NoOwner}]
      /\ outcome' \in [Runs -> {"none", "result", "error"}]
      /\ \A s \in Runs : status'[s] = "COMPLETED" => outcome'[s] = "result"
      /\ \A s \in Runs : status[s] = "COMPLETED" => status'[s] = "COMPLETED" /\ owner'[s] = owner[s]
      /\ \A s \in Runs : s # r => status'[s] = status[s]
    BY <1>3 DEF Record, Start, Finish, TablesOK, Statuses
<1>5. IsFiniteSet(Recorded')
    <2>1. Recorded' \subseteq Recorded \cup {r}
        BY <1>4 DEF Recorded
    <2>2. IsFiniteSet(Recorded \cup {r})
        BY FS_AddElement DEF TablesOK
    <2> QED
        BY <2>1, <2>2, FS_Subset
<1>6. \A user \in Owners : Completed(user) \subseteq Completed(user)'
    BY <1>4 DEF Completed
<1> QED
    BY <1>1, <1>2, <1>4, <1>5, <1>6 DEF TablesOK, TablesGrow

\* The requests write to neither table.
LEMMA TablesMoveForward ==
    ASSUME TablesOK, [PagesNext]_pagesVars
    PROVE  TablesGrow
<1>1. CASE UNCHANGED tables
    BY <1>1 DEF tables, lifecycleVars, TablesOK, TablesGrow, StoredDays, Recorded, DaysOf, Completed
<1>2. CASE Sync \/ RunBacktests
    BY <1>2, SyncGrows, RunsGrow
<1> QED
    BY <1>1, <1>2 DEF PagesNext, pagesVars, BeginPage, ReadMaxDate, ReadLastRun, PageFails,
         Render, Send, FetchFirst, FetchSecond
-----------------------------------------------------------------------------
(* The requests *)

\* What a request has read stays true while the tables grow.
LEMMA ReadsStayTrue ==
    ASSUME TablesGrow, NEW q \in Requests, PagesTypeOK
    PROVE  /\ DateOK(page[q]) /\ page'[q] = page[q] => DateOK(page[q])'
           /\ RunOK(page[q]) /\ page'[q] = page[q] => RunOK(page[q])'
           /\ FetchOK(fetch[q]) /\ fetch'[q] = fetch[q] => FetchOK(fetch[q])'
<1>1. /\ StoredDays \subseteq StoredDays' /\ StoredDays' \in SUBSET Nat /\ IsFiniteSet(StoredDays')
    BY PagesAssumption DEF TablesGrow, TablesOK, StoredDays
<1>2. /\ Latest(StoredDays) \in Nat /\ Latest(StoredDays)' \in Nat
      /\ Latest(StoredDays) <= Latest(StoredDays)'
    BY <1>1, LatestGrows DEF Latest
<1>3. page[q].since \in Nat /\ page[q].maxDate \in Nat
    <2>1. Days \cup {NoDay} \subseteq Nat
        BY PagesAssumption DEF NoDay
    <2>2. page[q].since \in Days \cup {NoDay} /\ page[q].maxDate \in Days \cup {NoDay}
        BY DEF PagesTypeOK, Page
    <2> QED
        BY <2>1, <2>2
<1>4. ASSUME DateOK(page[q]), page'[q] = page[q] PROVE DateOK(page[q])'
    BY <1>2, <1>3, <1>4 DEF DateOK
<1>5. ASSUME RunOK(page[q]), page'[q] = page[q] PROVE RunOK(page[q])'
    BY <1>5 DEF RunOK, TablesGrow
<1>6. ASSUME FetchOK(fetch[q]), fetch'[q] = fetch[q] PROVE FetchOK(fetch[q])'
    BY <1>6 DEF FetchOK, TablesGrow
<1> QED
    BY <1>4, <1>5, <1>6

\* What is stored at an instant, and its last day.
LEMMA StoredNow ==
    ASSUME TablesOK
    PROVE  /\ Latest(StoredDays) \in Days \cup {NoDay} /\ Latest(StoredDays) \in Nat
           /\ \A d \in StoredDays : d <= Latest(StoredDays)
<1>1. StoredDays \in SUBSET Nat /\ IsFiniteSet(StoredDays) /\ StoredDays \subseteq Days
    BY PagesAssumption DEF TablesOK, StoredDays
<1> QED
    BY <1>1, LatestOf DEF NoDay

\* The runs of a user at an instant, and the newest of them.
LEMMA CompletedNow ==
    ASSUME TablesOK, NEW user \in Owners, NEW S, S \subseteq Completed(user) \cup {NoRun}
    PROVE  /\ Latest(S) \in Completed(user) \cup {NoRun}
           /\ Latest(S) \in Runs \cup {NoRun} /\ Latest(S) \in Nat
           /\ \A r \in S : r <= Latest(S)
<1> DEFINE C == Completed(user) \cup {NoRun}
<1>1. Completed(user) \subseteq Recorded /\ Completed(user) \subseteq Runs /\ Runs \subseteq Nat
    BY PagesAssumption DEF Completed, Recorded
<1>2. IsFiniteSet(C)
    BY <1>1, FS_Subset, FS_AddElement DEF TablesOK
<1>3. IsFiniteSet(S)
    BY <1>2, FS_Subset
<1>4. NoRun \in Nat
    BY DEF NoRun
<1>5. S \in SUBSET Nat
    BY <1>1, <1>4
<1>6. Latest(S) \in S \cup {0} /\ Latest(S) \in Nat /\ \A r \in S : r <= Latest(S)
    BY <1>3, <1>5, LatestOf
<1>7. Latest(S) \in Completed(user) \cup {NoRun}
    BY <1>6 DEF NoRun
<1> QED
    BY <1>1, <1>6, <1>7

\* A request takes the last stored day and the newest run shown as they are
\* when it begins.
LEMMA BeginKeeps ==
    ASSUME PagesInv, NEW q \in Requests, BeginPage(q)
    PROVE  /\ page' \in [Requests -> Page]
           /\ \A o \in Requests : o # q => page'[o] = page[o]
           /\ page'[q].detail => DateOK(page'[q])
           /\ RunOK(page'[q])
<1>1. page \in [Requests -> Page] /\ TablesOK
    BY DEF PagesInv, PagesTypeOK
<1>2. PICK user \in Owners, detail \in BOOLEAN :
        page' = [page EXCEPT ![q] =
            [page[q] EXCEPT !.pc = IF detail THEN "maxDate" ELSE "lastRun",
                            !.user = user, !.detail = detail,
                            !.since = Latest(StoredDays), !.sawRun = Latest(ShownRuns(user))]]
    BY DEF BeginPage
<1> DEFINE pNext == [page[q] EXCEPT !.pc = IF detail THEN "maxDate" ELSE "lastRun",
                                    !.user = user, !.detail = detail,
                                    !.since = Latest(StoredDays),
                                    !.sawRun = Latest(ShownRuns(user))]
<1>3. Latest(StoredDays) \in Days \cup {NoDay} /\ Latest(StoredDays) \in Nat
    BY <1>1, StoredNow
<1>4. ShownRuns(user) \subseteq Completed(user) \cup {NoRun}
    BY DEF PagesInv, RunOK, ShownRuns
<1>5. /\ Latest(ShownRuns(user)) \in Completed(user) \cup {NoRun}
      /\ Latest(ShownRuns(user)) \in Runs \cup {NoRun}
    BY <1>1, <1>4, CompletedNow
<1>6. page[q] \in Page
    BY <1>1
<1>7. /\ pNext \in Page
      /\ pNext.pc = IF detail THEN "maxDate" ELSE "lastRun"
      /\ pNext.user = user /\ pNext.detail = detail
      /\ pNext.since = Latest(StoredDays) /\ pNext.sawRun = Latest(ShownRuns(user))
    <2> DEFINE pc == IF detail THEN "maxDate" ELSE "lastRun"
               since == Latest(StoredDays)
               sawRun == Latest(ShownRuns(user))
               ADay == Days \cup {NoDay}
               ARun == Runs \cup {NoRun}
               AUser == Owners \cup {NoOwner}
    <2>1. pc \in {"maxDate", "lastRun"} /\ user \in AUser /\ since \in ADay /\ sawRun \in ARun
        BY <1>3, <1>5
    <2>2. pNext = [page[q] EXCEPT !.pc = pc, !.user = user, !.detail = detail, !.since = since,
                                  !.sawRun = sawRun]
        OBVIOUS
    <2>3. page[q] \in [pc : {"idle", "maxDate", "lastRun", "render", "send", "sent", "failed"},
              user : AUser, detail : BOOLEAN, maxDate : ADay, run : ARun, shared : BOOLEAN,
              limit : ADay, since : ADay, sawRun : ARun]
        BY <1>6 DEF Page
    <2> HIDE DEF pc, since, sawRun, ADay, ARun, AUser, pNext
    <2>4. /\ pNext \in [pc : {"idle", "maxDate", "lastRun", "render", "send", "sent", "failed"},
              user : AUser, detail : BOOLEAN, maxDate : ADay, run : ARun, shared : BOOLEAN,
              limit : ADay, since : ADay, sawRun : ARun]
          /\ pNext.pc = pc /\ pNext.user = user /\ pNext.detail = detail
          /\ pNext.since = since /\ pNext.sawRun = sawRun
        BY <2>1, <2>2, <2>3
    <2> QED
        BY <2>4 DEF pc, since, sawRun, ADay, ARun, AUser, Page
<1> HIDE DEF pNext
<1>8. page' = [page EXCEPT ![q] = pNext]
    BY <1>2 DEF pNext
<1>9. page'[q] = pNext /\ page' \in [Requests -> Page]
      /\ \A o \in Requests : o # q => page'[o] = page[o]
    BY <1>1, <1>7, <1>8
<1>10. pNext.detail => DateOK(pNext)
    BY <1>3, <1>7 DEF DateOK
<1>11. RunOK(pNext)
    BY <1>5, <1>7 DEF RunOK
<1> QED
    BY <1>9, <1>10, <1>11

\* A step of a request that has begun: it reads the last day, or the last
\* run, of what is stored then, copies the constraints, or sends them.
LEMMA PageStepKeeps ==
    ASSUME PagesInv, NEW q \in Requests,
           ReadMaxDate(q) \/ ReadLastRun(q) \/ PageFails(q) \/ Render(q) \/ Send(q)
    PROVE  /\ page' \in [Requests -> Page]
           /\ \A o \in Requests : o # q => page'[o] = page[o]
           /\ page'[q].detail => DateOK(page'[q])
           /\ RunOK(page'[q])
           /\ registry' = NoDay
<1>1. /\ page \in [Requests -> Page] /\ TablesOK /\ page[q] \in Page /\ registry = NoDay
      /\ page[q].detail => DateOK(page[q])
      /\ RunOK(page[q])
    BY DEF PagesInv, PagesTypeOK
<1>2. CASE ReadMaxDate(q)
    <2> DEFINE p == [page[q] EXCEPT !.pc = "lastRun", !.maxDate = Latest(StoredDays)]
    <2>1. page' = [page EXCEPT ![q] = p] /\ page[q].pc = "maxDate" /\ UNCHANGED registry
        BY <1>1, <1>2 DEF ReadMaxDate
    <2>2. Latest(StoredDays) \in Days \cup {NoDay} /\ Latest(StoredDays) \in Nat
        BY <1>1, StoredNow
    <2>3. /\ p \in Page /\ p.pc = "lastRun" /\ p.maxDate = Latest(StoredDays)
          /\ p.detail = page[q].detail /\ p.since = page[q].since
          /\ p.user = page[q].user /\ p.sawRun = page[q].sawRun
        BY <1>1, <2>2 DEF Page
    <2> HIDE DEF p
    <2>4. p.detail => DateOK(p)
        BY <1>1, <2>1, <2>2, <2>3 DEF DateOK
    <2>5. RunOK(p)
        BY <1>1, <2>1, <2>3 DEF RunOK
    <2> QED
        BY <1>1, <2>1, <2>3, <2>4, <2>5
<1>3. CASE ReadLastRun(q)
    <2> DEFINE r == Latest(Completed(page[q].user))
               p == [page[q] EXCEPT !.pc = IF page[q].detail THEN "render" ELSE "send", !.run = r]
    <2>1. page' = [page EXCEPT ![q] = p] /\ page[q].pc = "lastRun" /\ UNCHANGED registry
        BY <1>1, <1>3 DEF ReadLastRun, LatestCompletedBySlug
    <2>2. page[q].user \in Owners /\ page[q].sawRun \in Completed(page[q].user) \cup {NoRun}
        BY <1>1, <2>1 DEF RunOK
    <2>3. /\ r \in Completed(page[q].user) \cup {NoRun} /\ r \in Runs \cup {NoRun} /\ r \in Nat
          /\ \A s \in Completed(page[q].user) : s <= r
        BY <1>1, <2>2, CompletedNow
    <2>4. page[q].sawRun <= r
        BY <2>2, <2>3 DEF NoRun
    <2>5. /\ p \in Page /\ p.pc \in {"render", "send"} /\ p.run = r
          /\ p.detail = page[q].detail /\ (p.detail => p.pc = "render")
          /\ p.since = page[q].since /\ p.maxDate = page[q].maxDate
          /\ p.user = page[q].user /\ p.sawRun = page[q].sawRun
        BY <1>1, <2>3 DEF Page
    <2> HIDE DEF p, r
    <2>6. p.detail => DateOK(p)
        BY <1>1, <2>1, <2>5 DEF DateOK
    <2>7. RunOK(p)
        BY <2>2, <2>3, <2>4, <2>5 DEF RunOK
    <2> QED
        BY <1>1, <2>1, <2>5, <2>6, <2>7
<1>4. CASE PageFails(q)
    <2> DEFINE p == [page[q] EXCEPT !.pc = "failed"]
    <2>1. page' = [page EXCEPT ![q] = p] /\ page[q].pc \in {"maxDate", "lastRun"} /\ UNCHANGED registry
        BY <1>1, <1>4 DEF PageFails
    <2>2. /\ p \in Page /\ p.pc = "failed" /\ p.user = page[q].user /\ p.sawRun = page[q].sawRun
        BY <1>1 DEF Page
    <2> HIDE DEF p
    <2>3. DateOK(p) /\ RunOK(p)
        BY <1>1, <2>1, <2>2 DEF DateOK, RunOK
    <2> QED
        BY <1>1, <2>1, <2>2, <2>3
<1>5. CASE Render(q)
    <2> DEFINE p == [page[q] EXCEPT !.pc = "send", !.shared = (page[q].maxDate = NoDay),
                                    !.limit = page[q].maxDate]
    <2>1. page' = [page EXCEPT ![q] = p] /\ page[q].pc = "render" /\ registry' = NoDay
        BY <1>1, <1>5 DEF Render, Constraints
    <2>2. /\ p \in Page /\ p.pc = "send" /\ p.shared = (page[q].maxDate = NoDay)
          /\ p.limit = page[q].maxDate /\ p.maxDate = page[q].maxDate
          /\ p.detail = page[q].detail /\ p.since = page[q].since
          /\ p.user = page[q].user /\ p.run = page[q].run /\ p.sawRun = page[q].sawRun
        BY <1>1 DEF Page
    <2> HIDE DEF p
    <2>3. p.detail => DateOK(p)
        BY <1>1, <2>1, <2>2 DEF DateOK
    <2>4. RunOK(p)
        BY <1>1, <2>1, <2>2 DEF RunOK
    <2> QED
        BY <1>1, <2>1, <2>2, <2>3, <2>4
<1>6. CASE Send(q)
    <2> DEFINE l == IF page[q].shared THEN registry ELSE page[q].limit
               p == [page[q] EXCEPT !.pc = "sent", !.limit = l]
    <2>1. page' = [page EXCEPT ![q] = p] /\ page[q].pc = "send" /\ UNCHANGED registry
        BY <1>1, <1>6 DEF Send
    <2>2. l \in Days \cup {NoDay}
        BY <1>1 DEF Page
    <2>3. /\ p \in Page /\ p.pc = "sent" /\ p.limit = l /\ p.maxDate = page[q].maxDate
          /\ p.detail = page[q].detail /\ p.since = page[q].since
          /\ p.user = page[q].user /\ p.run = page[q].run /\ p.sawRun = page[q].sawRun
        BY <1>1, <2>2 DEF Page
    <2>4. page[q].detail => l = page[q].maxDate
        BY <1>1, <2>1 DEF DateOK
    <2> HIDE DEF p, l
    <2>5. p.detail => DateOK(p)
        BY <1>1, <2>1, <2>3, <2>4 DEF DateOK
    <2>6. RunOK(p)
        BY <1>1, <2>1, <2>3 DEF RunOK
    <2> QED
        BY <1>1, <2>1, <2>3, <2>5, <2>6
<1> QED
    BY <1>2, <1>3, <1>4, <1>5, <1>6

\* A submission reads the signals first and what is stored of the trades
\* then; what it reads of the trades afterwards contains that.
LEMMA FetchStepKeeps ==
    ASSUME PagesInv, NEW f \in Requests, FetchFirst(f) \/ FetchSecond(f)
    PROVE  /\ fetch' \in [Requests -> Fetch]
           /\ \A o \in Requests : o # f => fetch'[o] = fetch[o]
           /\ FetchOK(fetch'[f])
<1>1. /\ fetch \in [Requests -> Fetch] /\ fetch[f] \in Fetch
      /\ FetchOK(fetch[f])
    BY DEF PagesInv, PagesTypeOK
<1>2. DaysOf(Signal) \subseteq Days /\ DaysOf(Trade) \subseteq Days
    BY DEF DaysOf
<1>3. Signal # Trade /\ ReadOrder[1] = Signal /\ ReadOrder[2] = Trade
    BY PagesAssumption DEF ReadOrder
<1>4. CASE FetchRefused(f)
    <2> DEFINE s == [fetch[f] EXCEPT !.pc = "refused"]
    <2>1. fetch' = [fetch EXCEPT ![f] = s]
        BY <1>1, <1>4 DEF FetchRefused
    <2>2. s \in Fetch /\ s.pc = "refused"
        BY <1>1 DEF Fetch
    <2> HIDE DEF s
    <2> QED
        BY <1>1, <2>1, <2>2 DEF FetchOK
<1>5. CASE fetch' = [Stream(f, ReadOrder[1]) EXCEPT ![f].pc = "second"]
    <2> DEFINE s == [fetch[f] EXCEPT !.pc = "second", !.signalDays = DaysOf(Signal),
                                     !.held = DaysOf(Trade)]
    <2>1. Stream(f, ReadOrder[1]) = [fetch EXCEPT ![f].signalDays = DaysOf(Signal), ![f].held = DaysOf(Trade)]
        BY <1>3 DEF Stream
    <2>2. fetch' = [fetch EXCEPT ![f] = s]
        BY <1>1, <1>5, <2>1 DEF Fetch
    <2>3. s \in Fetch /\ s.pc = "second" /\ s.held = DaysOf(Trade)
        BY <1>1, <1>2 DEF Fetch
    <2> HIDE DEF s
    <2> QED
        BY <1>1, <2>2, <2>3 DEF FetchOK
<1>6. CASE fetch[f].pc = "second" /\ fetch' = [Stream(f, ReadOrder[2]) EXCEPT ![f].pc = "ready"]
    <2> DEFINE s == [fetch[f] EXCEPT !.pc = "ready", !.tradeDays = DaysOf(Trade)]
    <2>1. Stream(f, ReadOrder[2]) = [fetch EXCEPT ![f].tradeDays = DaysOf(Trade)]
        BY <1>3 DEF Stream
    <2>2. fetch' = [fetch EXCEPT ![f] = s]
        BY <1>1, <1>6, <2>1 DEF Fetch
    <2>3. /\ s \in Fetch /\ s.pc = "ready" /\ s.held = fetch[f].held
          /\ s.tradeDays = DaysOf(Trade)
        BY <1>1, <1>2 DEF Fetch
    <2>4. fetch[f].held \subseteq DaysOf(Trade)
        BY <1>1, <1>6 DEF FetchOK
    <2> HIDE DEF s
    <2> QED
        BY <1>1, <2>2, <2>3, <2>4 DEF FetchOK
<1> QED
    BY <1>4, <1>5, <1>6 DEF FetchFirst, FetchSecond
-----------------------------------------------------------------------------
(* Theorems *)

\* The invariant holds before anything is stored or asked for.
LEMMA PagesStart ==
    ASSUME PagesInit
    PROVE  PagesInv
<1>1. /\ StoredDays = {} /\ Recorded = {}
    BY DEF PagesInit, CalendarInit, LifecycleInit, StoredDays, Recorded
<1>2. TablesOK
    BY <1>1, FS_EmptySet DEF PagesInit, CalendarInit, LifecycleInit, TablesOK, Statuses
<1>3. PagesTypeOK
    <2>1. page \in [Requests -> Page]
        BY DEF PagesInit, Page, NoDay, NoRun
    <2>2. fetch \in [Requests -> Fetch]
        BY DEF PagesInit, Fetch
    <2> QED
        BY <2>1, <2>2 DEF PagesInit, PagesTypeOK
<1>4. ASSUME NEW q \in Requests PROVE DateOK(page[q]) /\ RunOK(page[q]) /\ FetchOK(fetch[q])
    <2>1. page[q].pc = "idle" /\ fetch[q].pc = "idle"
        BY DEF PagesInit
    <2> QED
        BY <2>1 DEF DateOK, RunOK, FetchOK
<1> QED
    BY <1>2, <1>3, <1>4 DEF PagesInv, PagesInit

\* Every step keeps the invariant.
LEMMA PagesStep ==
    ASSUME PagesInv, [PagesNext]_pagesVars
    PROVE  PagesInv'
<1>1. TablesGrow /\ TablesOK'
    BY TablesMoveForward DEF PagesInv, TablesGrow
<1>2. PagesTypeOK /\ registry = NoDay
    BY DEF PagesInv
<1>3. ASSUME NEW q \in Requests, page'[q] = page[q]
      PROVE  (page[q].detail => DateOK(page[q]))' /\ RunOK(page[q])'
    BY <1>1, <1>2, <1>3, ReadsStayTrue DEF PagesInv
<1>4. ASSUME NEW q \in Requests, fetch'[q] = fetch[q] PROVE FetchOK(fetch[q])'
    BY <1>1, <1>2, <1>4, ReadsStayTrue DEF PagesInv
<1>5. CASE UNCHANGED <<registry, page, fetch>>
    BY <1>1, <1>2, <1>3, <1>4, <1>5 DEF PagesInv, PagesTypeOK
<1>6. ASSUME UNCHANGED tables
      PROVE  /\ UNCHANGED StoredDays /\ DaysOf(Trade)' = DaysOf(Trade)
             /\ \A user \in Owners : Completed(user)' = Completed(user)
    BY <1>6 DEF tables, lifecycleVars, StoredDays, DaysOf, Completed
<1>7. ASSUME NEW q \in Requests,
             BeginPage(q) \/ ReadMaxDate(q) \/ ReadLastRun(q) \/ PageFails(q) \/ Render(q) \/ Send(q)
      PROVE  PagesInv'
    <2>1. UNCHANGED <<tables, fetch>>
        BY <1>7 DEF BeginPage, ReadMaxDate, ReadLastRun, PageFails, Render, Send
    <2>2. /\ page' \in [Requests -> Page] /\ registry' = NoDay
          /\ \A o \in Requests : o # q => page'[o] = page[o]
          /\ page'[q].detail => DateOK(page'[q])
          /\ RunOK(page'[q])
        BY <1>2, <1>7, BeginKeeps, PageStepKeeps DEF BeginPage
    <2>3. (page[q].detail => DateOK(page[q]))' /\ RunOK(page[q])'
        BY <1>6, <2>1, <2>2 DEF DateOK, RunOK, Latest
    <2> QED
        BY <1>1, <1>2, <1>3, <1>4, <2>1, <2>2, <2>3 DEF PagesInv, PagesTypeOK
<1>8. ASSUME NEW f \in Requests, FetchFirst(f) \/ FetchSecond(f) PROVE PagesInv'
    <2>1. UNCHANGED <<tables, registry, page>>
        BY <1>8 DEF FetchFirst, FetchSecond
    <2>2. /\ fetch' \in [Requests -> Fetch] /\ FetchOK(fetch'[f])
          /\ \A o \in Requests : o # f => fetch'[o] = fetch[o]
        BY <1>8, FetchStepKeeps
    <2>3. FetchOK(fetch[f])'
        BY <1>6, <2>1, <2>2 DEF FetchOK
    <2> QED
        BY <1>1, <1>2, <1>3, <1>4, <2>1, <2>2, <2>3 DEF PagesInv, PagesTypeOK
<1> QED
    BY <1>5, <1>7, <1>8 DEF PagesNext, pagesVars, Sync, RunBacktests

\* In every reachable state, what the requests have read is still stored, and
\* the registry's own constraints are as they were loaded.
THEOREM PagesInvariant == PagesSpec => []PagesInv
<1>1. PagesInit => PagesInv
    BY PagesStart
<1>2. PagesInv /\ [PagesNext]_pagesVars => PagesInv'
    BY PagesStep
<1> QED
    BY <1>1, <1>2, PTL DEF PagesSpec

\* The records of pages and submissions keep their types.
THEOREM PagesTypeCorrect == PagesSpec => []PagesTypeOK
<1>1. PagesInv => PagesTypeOK
    BY DEF PagesInv
<1> QED
    BY <1>1, PagesInvariant, PTL

\* The last date a strategy page offers was stored when the request began or
\* later, and is not another request's.
THEOREM OfferedDateStored == PagesSpec => []DateLimitIsCurrent
<1>1. ASSUME PagesInv, NEW q \in Requests, page[q].pc = "sent", page[q].detail
      PROVE  page[q].since <= page[q].limit /\ page[q].limit <= Latest(StoredDays)
    BY <1>1 DEF PagesInv, DateOK
<1>2. PagesInv => DateLimitIsCurrent
    BY <1>1 DEF DateLimitIsCurrent
<1> QED
    BY <1>2, PagesInvariant, PTL

\* No reply shows a user an older last backtest than a reply before it did,
\* nor one without its result or of somebody else.
THEOREM LastRunNeverOlder == PagesSpec => []LastBacktestMovesForward
<1>1. ASSUME PagesInv, NEW q \in Requests, page[q].pc = "sent"
      PROVE  /\ page[q].sawRun <= page[q].run
             /\ page[q].run # NoRun =>
                   owner[page[q].run] = page[q].user /\ outcome[page[q].run] = "result"
    BY <1>1 DEF PagesInv, RunOK, TablesOK, Completed
<1>2. PagesInv => LastBacktestMovesForward
    BY <1>1 DEF LastBacktestMovesForward
<1> QED
    BY <1>2, PagesInvariant, PTL

\* A submission does not miss the trade candles of a signal day that were
\* stored when it read the signals.
THEOREM TradesReachSignals == PagesSpec => []TradeStreamCoversSignals
<1>1. PagesInv => TradeStreamCoversSignals
    BY DEF PagesInv, FetchOK, TradeStreamCoversSignals
<1> QED
    BY <1>1, PagesInvariant, PTL
=============================================================================
