---------------------------- MODULE RateLimiter ----------------------------
(***************************************************************************)
(* ipRateLimiter: one counter per (route, ip) behind a mutex.  Request     *)
(* goroutines and the eviction goroutine read the clock first and take     *)
(* the mutex afterwards, so they may act on a reading others have already  *)
(* gone past; what they do under the mutex is one step.                    *)
(***************************************************************************)
EXTENDS Integers, Sequences

CONSTANTS
  Keys,        \* (route, ip) pairs
  NoKey,       \* the key of a goroutine slot that is free
  Goroutines,  \* requests in the middleware at the same time
  Rpm,         \* requests per window; one value, as one route has
  Window,      \* rateLimitWindow, in ticks
  IdleTTL,     \* rateLimitIdleTTL, in ticks
  EvictEvery,  \* rateLimitEvictInterval, in ticks
  MaxLag,      \* how long anybody waits for a turn to run or for the mutex
  MaxNow       \* bound on the clock

\* rateLimitWindow is 1 minute, rateLimitIdleTTL 10 and the interval 5.
ASSUME LimiterAssumption ==
  /\ NoKey \notin Keys
  /\ Rpm \in Nat \ {0}
  /\ Window \in Nat \ {0} /\ EvictEvery \in Nat \ {0}
  /\ MaxLag \in Nat /\ MaxLag < Window /\ MaxLag <= EvictEvery
  /\ IdleTTL \in Nat /\ IdleTTL >= Window + 2 * MaxLag
  /\ MaxNow \in Nat

VARIABLES
  now,      \* the monotonic clock
  entries,  \* ipRateLimiter.entries
  request,  \* request goroutines: which key, and the clock reading in hand
  evictor,  \* the eviction goroutine, its reading, and when it is due next
  granted   \* history: granted[k] is when requests of k were let through

vars == <<now, entries, request, evictor, granted>>

Times == 0..MaxNow

Entry == [windowStart : Times, count : Nat, lastSeen : Times]
NoEntry == [windowStart |-> 0, count |-> 0, lastSeen |-> -1]

IdleRequest == [pc |-> "idle", key |-> NoKey, at |-> 0]

Has(k) == entries[k] # NoEntry

TypeOK ==
  /\ now \in Times
  /\ entries \in [Keys -> Entry \cup {NoEntry}]
  /\ request \in [Goroutines -> [pc : {"idle", "lock", "denied"},
                                 key : Keys \cup {NoKey}, at : Times]]
  /\ evictor \in [pc : {"wait", "lock"}, at : Times, due : Nat]
  /\ granted \in [Keys -> Seq(Times)]

Init ==
  /\ now = 0
  /\ entries = [k \in Keys |-> NoEntry]
  /\ request = [g \in Goroutines |-> IdleRequest]
  /\ evictor = [pc |-> "wait", at |-> 0, due |-> EvictEvery]
  /\ granted = [k \in Keys |-> <<>>]
-----------------------------------------------------------------------------
(* allow *)

\* now := l.now(), before l.mu.Lock()
ReadClock(g, k) ==
  /\ request[g].pc = "idle"
  /\ request' = [request EXCEPT ![g] = [pc |-> "lock", key |-> k, at |-> now]]
  /\ UNCHANGED <<now, entries, evictor, granted>>

\* Mutant: the new window starts without a new count.
OpenedKeepingCount(e, at) == [e EXCEPT !.windowStart = at]

Opened(e, at) == [e EXCEPT !.windowStart = at, !.count = 0]

\* The entry a request stamped at finds after rolling the window over.
Current(k, at) ==
  IF ~Has(k) THEN [windowStart |-> at, count |-> 0, lastSeen |-> at]
  ELSE IF at - entries[k].windowStart >= Window THEN Opened(entries[k], at)
  ELSE entries[k]

Counted(e, at) == [e EXCEPT !.count = @ + 1, !.lastSeen = at]

\* Mutant: a refused request refreshes lastSeen.
RefusedSeen(e, at) == [e EXCEPT !.lastSeen = at]

\* A refused request leaves count and lastSeen alone.
Refused(e, at) == e

Allow(g) ==
  LET k == request[g].key
      at == request[g].at
      e == Current(k, at)
  IN /\ request[g].pc = "lock"
     /\ \/ /\ e.count < Rpm
           /\ entries' = [entries EXCEPT ![k] = Counted(e, at)]
           /\ request' = [request EXCEPT ![g] = IdleRequest]
           /\ granted' = [granted EXCEPT ![k] = Append(@, now)]
        \/ /\ e.count >= Rpm
           /\ entries' = [entries EXCEPT ![k] = Refused(e, at)]
           /\ request' = [request EXCEPT ![g].pc = "denied"]
           /\ granted' = granted
     /\ UNCHANGED <<now, evictor>>

\* The 429 is sent and the goroutine is gone.
Respond(g) ==
  /\ request[g].pc = "denied"
  /\ request' = [request EXCEPT ![g] = IdleRequest]
  /\ UNCHANGED <<now, entries, evictor, granted>>
-----------------------------------------------------------------------------
(* startEviction, evictStale *)

EvictReadsClock ==
  /\ evictor.pc = "wait"
  /\ now >= evictor.due
  /\ evictor' = [pc |-> "lock", at |-> now, due |-> evictor.due + EvictEvery]
  /\ UNCHANGED <<now, entries, request, granted>>

\* Mutant: the sweep measures idleness against the window, not the TTL.
IdleForAWindow(e, at) == at - e.lastSeen >= Window - 1

Stale(e, at) == at - e.lastSeen > IdleTTL

Evict ==
  /\ evictor.pc = "lock"
  /\ entries' = [k \in Keys |-> IF Has(k) /\ Stale(entries[k], evictor.at)
                                THEN NoEntry ELSE entries[k]]
  /\ evictor' = [evictor EXCEPT !.pc = "wait", !.at = 0]
  /\ UNCHANGED <<now, request, granted>>
-----------------------------------------------------------------------------
\* Nobody is kept waiting longer than MaxLag.
Tick ==
  /\ now < MaxNow
  /\ \A g \in Goroutines : request[g].pc = "lock" => now - request[g].at < MaxLag
  /\ evictor.pc = "lock" => now - evictor.at < MaxLag
  /\ evictor.pc = "wait" => now - evictor.due < MaxLag
  /\ now' = now + 1
  /\ UNCHANGED <<entries, request, evictor, granted>>

Next ==
  \/ \E g \in Goroutines :
       \/ \E k \in Keys : ReadClock(g, k)
       \/ Allow(g)
       \/ Respond(g)
  \/ EvictReadsClock
  \/ Evict
  \/ Tick

Spec == Init /\ [][Next]_vars
-----------------------------------------------------------------------------
(* Properties *)

\* A fixed window lets at most two budgets through where two windows meet: from
\* any request that is let through to the one two budgets later it takes a
\* window, less the wait of a request that reaches the mutex with an old
\* reading, and an eviction never refills a budget.
TwoBudgetsAtMost ==
  \A k \in Keys : \A i \in 1..(Len(granted[k]) - 2 * Rpm) :
    granted[k][i + 2 * Rpm] - granted[k][i] >= Window - MaxLag

\* A 429 is earned: a whole budget of that key went to requests let through
\* less than a window before the refused one read the clock.
DenialIsEarned ==
  \A g \in Goroutines :
    request[g].pc = "denied" =>
      LET times == granted[request[g].key]
          first == Len(times) - Rpm + 1
      IN first >= 1 /\ times[first] > request[g].at - Window

\* The map does not grow with every address that was ever seen: an entry is
\* gone one sweep after its key has been idle for the TTL, and requests that
\* are refused do not keep it.
IdleEntriesReclaimed ==
  \A k \in Keys :
    Has(k) =>
      LET times == granted[k]
      IN /\ times # <<>>
         /\ times[Len(times)] >= now - IdleTTL - EvictEvery - 2 * MaxLag
=============================================================================
