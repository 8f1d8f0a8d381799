------------------------ MODULE RateLimiterProofs ------------------------
(***************************************************************************)
(* The limiter for any number of keys and goroutines and any rates.  The   *)
(* invariant places an entry in the list of the times its key was let      *)
(* through: its count is the length of the current window's part, which    *)
(* began within a wait of windowStart, and everything more than one budget *)
(* before that part is a window older.  Without an entry the whole list    *)
(* is, because nothing is evicted before it has been idle for the TTL.     *)
(***************************************************************************)
EXTENDS RateLimiter, SequenceTheorems, TLAPS

\* The clock does not run backwards.
Nondecreasing(times) ==
  \A i, j \in 1..Len(times) : i <= j => times[i] <= times[j]

\* A reading in hand is no older than the wait allows.
RequestOK(r) ==
  /\ r.pc \in {"lock", "denied"} => r.key \in Keys
  /\ r.pc = "lock" => r.at <= now /\ now <= r.at + MaxLag

\* The sweeps keep their interval, give or take the waits.
EvictorOK ==
  /\ evictor.pc = "wait" => /\ evictor.due - EvictEvery <= now
                            /\ now <= evictor.due + MaxLag
  /\ evictor.pc = "lock" => /\ evictor.at <= now
                            /\ now <= evictor.at + MaxLag
                            /\ evictor.due - EvictEvery <= evictor.at
                            /\ evictor.at <= evictor.due - EvictEvery + MaxLag

\* No later than the reading the last complete sweep was made with.
LastSweep == evictor.due - (IF evictor.pc = "wait" THEN EvictEvery ELSE 2 * EvictEvery)

\* An entry and the times its key was let through.
EntryOK(e, times, sweep) ==
  LET n == Len(times) IN
  /\ e.count >= 1 /\ e.count <= Rpm /\ e.count <= n
  /\ e.lastSeen <= times[n] /\ times[n] <= e.lastSeen + MaxLag
  /\ e.windowStart <= times[n - e.count + 1]
  /\ times[n - e.count + 1] <= e.windowStart + MaxLag
  /\ \A i \in 1..(n - e.count - Rpm) : times[i] + Window <= e.windowStart + MaxLag
  /\ sweep <= e.lastSeen + IdleTTL

\* A key without an entry was let through so long ago that no window of a
\* request to come reaches back to it.
GoneOK(times) == times # <<>> => times[Len(times)] + Window + MaxLag <= now

KeyOK(k) ==
  /\ Nondecreasing(granted[k])
  /\ \A i \in 1..Len(granted[k]) : granted[k][i] <= now
  /\ Has(k) => EntryOK(entries[k], granted[k], LastSweep)
  /\ ~Has(k) => GoneOK(granted[k])

LimiterInv ==
  /\ TypeOK
  /\ \A g \in Goroutines : RequestOK(request[g])
  /\ EvictorOK
  /\ \A k \in Keys : KeyOK(k)
  /\ TwoBudgetsAtMost
  /\ DenialIsEarned
-----------------------------------------------------------------------------
(* One more request let through *)

\* The types of the constants, as the steps use them.
LEMMA Constants ==
  /\ Rpm \in Nat /\ Rpm >= 1 /\ Window \in Nat /\ Window >= 1
  /\ EvictEvery \in Nat /\ EvictEvery >= 1 /\ MaxLag \in Nat /\ IdleTTL \in Nat
  /\ MaxLag < Window /\ MaxLag <= EvictEvery /\ IdleTTL >= Window + 2 * MaxLag
  /\ MaxNow \in Nat /\ NoKey \notin Keys
BY LimiterAssumption

\* A list of times, one longer.
LEMMA Appended ==
  ASSUME NEW s \in Seq(Times), NEW t \in Times
  PROVE  /\ Append(s, t) \in Seq(Times) /\ Len(s) \in Nat
         /\ Len(Append(s, t)) = Len(s) + 1
         /\ Append(s, t)[Len(s) + 1] = t
         /\ \A i \in 1..Len(s) : Append(s, t)[i] = s[i] /\ s[i] \in Nat
         /\ Append(s, t) # <<>>
<1>1. \A i \in 1..Len(s) : s[i] \in Times
  OBVIOUS
<1>2. Times \subseteq Nat
  BY Constants DEF Times
<1>3. /\ Append(s, t) \in Seq(Times) /\ Append(s, t) # <<>>
      /\ Len(Append(s, t)) = Len(s) + 1
      /\ \A i \in 1..Len(s) : Append(s, t)[i] = s[i]
      /\ Append(s, t)[Len(s) + 1] = t
  BY AppendProperties
<1>4. Len(s) \in Nat
  OBVIOUS
<1>5. QED
  BY <1>1, <1>2, <1>3, <1>4

\* The list stays sorted and in the past.
LEMMA SortedAppend ==
  ASSUME NEW s \in Seq(Times), NEW t \in Times, Nondecreasing(s),
         \A i \in 1..Len(s) : s[i] <= t
  PROVE  /\ Nondecreasing(Append(s, t))
         /\ \A i \in 1..Len(Append(s, t)) : Append(s, t)[i] <= t
<1> DEFINE new == Append(s, t)
           n == Len(s)
<1>1. /\ n \in Nat /\ Len(new) = n + 1 /\ new[n + 1] = t /\ t \in Nat
      /\ \A i \in 1..n : new[i] = s[i] /\ s[i] \in Nat
  BY Appended, Constants DEF Times
<1> HIDE DEF new, n
<1>2. \A i \in 1..(n + 1) : i \in 1..n \/ i = n + 1
  BY <1>1
<1>3. \A i \in 1..n : s[i] <= t
  BY DEF n
<1>4. \A i \in 1..(n + 1) : new[i] <= t
  BY <1>1, <1>2, <1>3
<1>5. ASSUME NEW i \in 1..(n + 1), NEW j \in 1..(n + 1), i <= j
      PROVE  new[i] <= new[j]
  <2>1. CASE j = n + 1
    BY <1>1, <1>4, <2>1
  <2>2. CASE j # n + 1
    <3>1. i \in 1..n /\ j \in 1..n
      BY <1>1, <1>5, <2>2
    <3>2. s[i] <= s[j]
      BY <1>5, <3>1 DEF Nondecreasing, n
    <3>3. QED
      BY <1>1, <3>1, <3>2
  <2>3. QED
    BY <2>1, <2>2
<1>6. QED
  BY <1>1, <1>4, <1>5 DEF Nondecreasing, new

\* One more at the end of a part that reaches to the end of the list.
LEMMA Shifted ==
  ASSUME NEW n \in Nat, NEW c \in Nat, c >= 1, c <= n
  PROVE  n - c + 1 \in 1..n /\ (n + 1) - (c + 1) + 1 = n - c + 1
OBVIOUS

\* A request within the window of its entry.
LEMMA SameWindow ==
  ASSUME NEW s \in Seq(Times), NEW t \in Times, NEW at \in Times,
         at <= t, t <= at + MaxLag,
         NEW e \in Entry, NEW sweep \in Int, EntryOK(e, s, sweep),
         e.count < Rpm, sweep <= at + IdleTTL
  PROVE  EntryOK(Counted(e, at), Append(s, t), sweep)
<1> DEFINE new == Append(s, t)
           n == Len(s)
           f == Counted(e, at)
<1>1. /\ n \in Nat /\ Len(new) = n + 1 /\ new[n + 1] = t
      /\ \A i \in 1..n : new[i] = s[i] /\ s[i] \in Nat
  BY Appended
<1>2. e.count \in Nat /\ e.windowStart \in Nat /\ t \in Nat /\ at \in Nat
  BY Constants DEF Entry, Times
<1>3. f.count = e.count + 1 /\ f.windowStart = e.windowStart /\ f.lastSeen = at
  BY DEF Counted, Entry
<1>4. /\ e.count >= 1 /\ e.count <= n
      /\ e.windowStart <= s[n - e.count + 1]
      /\ s[n - e.count + 1] <= e.windowStart + MaxLag
      /\ \A i \in 1..(n - e.count - Rpm) : s[i] + Window <= e.windowStart + MaxLag
  BY DEF EntryOK
<1> HIDE DEF new, n, f
<1>5. n - e.count + 1 \in 1..n /\ (n + 1) - (e.count + 1) + 1 = n - e.count + 1
  BY <1>1, <1>2, <1>4, Shifted
<1>6. new[(n + 1) - (e.count + 1) + 1] = s[n - e.count + 1]
  BY <1>1, <1>5
<1>7. \A i \in 1..((n + 1) - (e.count + 1) - Rpm) :
        i \in 1..(n - e.count - Rpm) /\ i \in 1..n
  BY <1>1, <1>2, Constants
<1>8. \A i \in 1..((n + 1) - (e.count + 1) - Rpm) :
        new[i] + Window <= e.windowStart + MaxLag
  BY <1>1, <1>4, <1>7
<1>9. e.count + 1 >= 1 /\ e.count + 1 <= Rpm /\ e.count + 1 <= n + 1
  BY <1>1, <1>2, <1>4, Constants
<1>10. QED
  BY <1>1, <1>3, <1>4, <1>6, <1>8, <1>9 DEF EntryOK, new, f

\* A request that opens a window.
LEMMA NewWindow ==
  ASSUME NEW s \in Seq(Times), NEW t \in Times, NEW at \in Times,
         at <= t, t <= at + MaxLag,
         NEW f, f.count = 1, f.windowStart = at, f.lastSeen = at,
         NEW sweep \in Int, sweep <= at + IdleTTL,
         \A i \in 1..(Len(s) - Rpm) : s[i] + Window <= at + MaxLag
  PROVE  EntryOK(f, Append(s, t), sweep)
<1> DEFINE new == Append(s, t)
           n == Len(s)
<1>1. /\ n \in Nat /\ Len(new) = n + 1 /\ new[n + 1] = t
      /\ \A i \in 1..n : new[i] = s[i] /\ s[i] \in Nat
  BY Appended
<1>2. \A i \in 1..(n - Rpm) : s[i] + Window <= at + MaxLag
  OBVIOUS
<1> HIDE DEF new, n
<1>3. (n + 1) - 1 + 1 = n + 1 /\ (n + 1) - 1 - Rpm = n - Rpm
  BY <1>1, Constants
<1>4. \A i \in 1..(n - Rpm) : new[i] + Window <= at + MaxLag
  <2>1. \A i \in 1..(n - Rpm) : i \in 1..n
    BY <1>1, Constants
  <2>2. QED
    BY <1>1, <1>2, <2>1
<1>5. 1 <= n + 1 /\ 1 <= Rpm
  BY <1>1, Constants
<1>6. Len(new) - f.count + 1 = n + 1 /\ Len(new) - f.count - Rpm = n - Rpm
  BY <1>1, <1>3, Constants
<1>7. /\ f.lastSeen <= new[Len(new)] /\ new[Len(new)] <= f.lastSeen + MaxLag
      /\ f.windowStart <= new[Len(new) - f.count + 1]
      /\ new[Len(new) - f.count + 1] <= f.windowStart + MaxLag
  BY <1>1, <1>6
<1>8. f.count >= 1 /\ f.count <= Rpm /\ f.count <= Len(new)
  BY <1>1, <1>5
<1>9. \A i \in 1..(Len(new) - f.count - Rpm) : new[i] + Window <= f.windowStart + MaxLag
  BY <1>4, <1>6
<1>10. QED
  BY <1>7, <1>8, <1>9 DEF EntryOK, new
-----------------------------------------------------------------------------
(* What the invariant says of a key, an entry and the sweep *)

\* A sweep that is over was made in the past.
LEMMA SweepIsPast ==
  ASSUME TypeOK, EvictorOK
  PROVE  /\ now \in Nat /\ LastSweep \in Int /\ LastSweep <= now
         /\ LastSweep >= now - EvictEvery - 2 * MaxLag
<1>1. /\ now \in Nat /\ evictor.due \in Nat /\ evictor.at \in Nat
      /\ evictor.pc \in {"wait", "lock"}
  BY Constants DEF TypeOK, Times
<1>2. CASE evictor.pc = "wait"
  BY <1>1, <1>2, Constants DEF LastSweep, EvictorOK
<1>3. CASE evictor.pc = "lock"
  BY <1>1, <1>3, Constants DEF LastSweep, EvictorOK
<1>4. QED
  BY <1>1, <1>2, <1>3

\* The three entries a request may find.
LEMMA CurrentCases ==
  ASSUME TypeOK, NEW k \in Keys, NEW at \in Times
  PROVE  LET e == Current(k, at)
             f == Counted(e, at)
         IN /\ e.count \in Nat
            /\ f \in Entry
            /\ f.windowStart = e.windowStart /\ f.count = e.count + 1 /\ f.lastSeen = at
            /\ \/ /\ ~Has(k)
                  /\ e.count = 0 /\ e.windowStart = at
               \/ /\ Has(k) /\ entries[k] \in Entry
                  /\ at - entries[k].windowStart >= Window
                  /\ e.count = 0 /\ e.windowStart = at
               \/ /\ Has(k) /\ entries[k] \in Entry
                  /\ at - entries[k].windowStart < Window
                  /\ e = entries[k]
<1> DEFINE e == Current(k, at)
<1>1. at \in Nat /\ Times \subseteq Nat
  BY Constants DEF Times
<1>2. Has(k) => entries[k] \in Entry /\ entries[k].windowStart \in Nat
  BY <1>1 DEF TypeOK, Has, Entry
<1>3. /\ e \in Entry
      /\ \/ /\ ~Has(k)
            /\ e.count = 0 /\ e.windowStart = at
         \/ /\ Has(k) /\ entries[k] \in Entry
            /\ at - entries[k].windowStart >= Window
            /\ e.count = 0 /\ e.windowStart = at
         \/ /\ Has(k) /\ entries[k] \in Entry
            /\ at - entries[k].windowStart < Window
            /\ e = entries[k]
  <2>1. CASE ~Has(k)
    BY <2>1 DEF Current, Entry
  <2>2. CASE Has(k) /\ at - entries[k].windowStart >= Window
    BY <1>2, <2>2 DEF Current, Opened, Entry
  <2>3. CASE Has(k) /\ ~(at - entries[k].windowStart >= Window)
    <3>1. e = entries[k]
      BY <2>3 DEF Current
    <3>2. at - entries[k].windowStart < Window
      BY <1>1, <1>2, <2>3, Constants
    <3>3. QED
      BY <1>2, <2>3, <3>1, <3>2
  <2>4. QED
    BY <2>1, <2>2, <2>3
<1> HIDE DEF e
<1>4. e.count \in Nat /\ e.count + 1 \in Nat
  BY <1>3 DEF Entry
<1>5. /\ Counted(e, at).windowStart = e.windowStart
      /\ Counted(e, at).count = e.count + 1 /\ Counted(e, at).lastSeen = at
  BY <1>3 DEF Counted, Entry
<1>6. Counted(e, at) \in Entry
  BY <1>3, <1>4 DEF Counted, Entry
<1>7. QED
  BY <1>3, <1>4, <1>5, <1>6 DEF e

\* What a request in the middle of allow knows.
LEMMA InHand ==
  ASSUME LimiterInv, NEW g \in Goroutines, request[g].pc = "lock"
  PROVE  /\ request[g].key \in Keys /\ request[g].at \in Times /\ now \in Times
         /\ request[g].at \in Nat /\ now \in Nat
         /\ request[g].at <= now /\ now <= request[g].at + MaxLag
         /\ granted[request[g].key] \in Seq(Times)
         /\ KeyOK(request[g].key)
<1>1. request[g].at \in Times /\ now \in Times /\ RequestOK(request[g])
  BY DEF LimiterInv, TypeOK
<1>2. request[g].key \in Keys
  BY <1>1 DEF RequestOK
<1>3. QED
  BY <1>1, <1>2, Constants DEF LimiterInv, TypeOK, RequestOK, Times

\* The request that is let through finds its window, old or new, and whoever
\* was let through two budgets before it is a window older.
LEMMA Grant ==
  ASSUME LimiterInv, NEW g \in Goroutines, request[g].pc = "lock",
         Current(request[g].key, request[g].at).count < Rpm
  PROVE  LET k == request[g].key
             at == request[g].at
         IN /\ EntryOK(Counted(Current(k, at), at), Append(granted[k], now), LastSweep)
            /\ \A i \in 1..(Len(granted[k]) + 1 - 2 * Rpm) :
                 granted[k][i] + Window <= now + MaxLag
<1> DEFINE k == request[g].key
           at == request[g].at
           s == granted[k]
           n == Len(s)
           e == Current(k, at)
           f == Counted(e, at)
<1>1. /\ k \in Keys /\ at \in Times /\ now \in Times /\ at \in Nat /\ now \in Nat
      /\ at <= now /\ now <= at + MaxLag /\ s \in Seq(Times) /\ KeyOK(k)
  BY InHand
<1>2. LastSweep \in Int /\ LastSweep <= at + IdleTTL
  <2>1. LastSweep \in Int /\ LastSweep <= now
    BY SweepIsPast DEF LimiterInv
  <2>2. QED
    BY <1>1, <2>1, Constants
<1>3. /\ e.count \in Nat /\ f \in Entry
      /\ f.windowStart = e.windowStart /\ f.count = e.count + 1 /\ f.lastSeen = at
      /\ \/ /\ ~Has(k)
            /\ e.count = 0 /\ e.windowStart = at
         \/ /\ Has(k) /\ entries[k] \in Entry
            /\ at - entries[k].windowStart >= Window
            /\ e.count = 0 /\ e.windowStart = at
         \/ /\ Has(k) /\ entries[k] \in Entry
            /\ at - entries[k].windowStart < Window
            /\ e = entries[k]
  BY <1>1, CurrentCases DEF LimiterInv
<1>4. n \in Nat /\ \A i \in 1..n : s[i] \in Nat
  BY <1>1, Appended
<1>5. Nondecreasing(s) /\ \A i \in 1..n : s[i] <= now
  BY <1>1 DEF KeyOK
<1>6. /\ Has(k) => EntryOK(entries[k], s, LastSweep)
      /\ ~Has(k) => GoneOK(s)
  BY <1>1 DEF KeyOK
<1>7. e.count < Rpm
  OBVIOUS
<1> HIDE DEF e, f, at, k
<1>8. CASE e.count = 0 /\ e.windowStart = at
           /\ (~Has(k) \/ (entries[k] \in Entry /\ Has(k)
                            /\ at - entries[k].windowStart >= Window))
  <2>1. \A i \in 1..(n - Rpm) : s[i] + Window <= at + MaxLag
    <3>1. SUFFICES ASSUME NEW i \in 1..(n - Rpm) PROVE s[i] + Window <= at + MaxLag
      OBVIOUS
    <3> HIDE DEF s, n
    <3>2. i \in 1..n /\ n \in 1..n /\ i <= n
      BY <1>4, Constants
    <3>3. s[i] \in Nat /\ s[n] \in Nat
      BY <1>4, <3>2
    <3>4. CASE ~Has(k)
      <4>1. s[n] + Window + MaxLag <= now
        BY <1>6, <3>2, <3>4 DEF GoneOK, n
      <4>2. s[i] <= s[n]
        BY <1>5, <3>2 DEF Nondecreasing, n
      <4>3. QED
        BY <1>1, <3>3, <4>1, <4>2, Constants
    <3>5. CASE entries[k] \in Entry /\ Has(k) /\ at - entries[k].windowStart >= Window
      <4> DEFINE c == entries[k].count
                 ws == entries[k].windowStart
      <4>1. c \in Nat /\ ws \in Nat /\ at - ws >= Window
        BY <3>5, Constants DEF Entry, Times
      <4>2. c >= 1 /\ c <= Rpm /\ c <= n /\ s[n - c + 1] <= ws + MaxLag
        BY <1>6, <3>5 DEF EntryOK, n
      <4> HIDE DEF c, ws
      <4>3. n - c + 1 \in 1..n
        BY <1>4, <4>1, <4>2, Shifted
      <4>4. i <= n - c + 1
        BY <1>4, <4>1, <4>2, <3>2, Constants
      <4>5. s[i] <= s[n - c + 1]
        BY <1>5, <3>2, <4>3, <4>4 DEF Nondecreasing, n
      <4>6. s[n - c + 1] \in Nat
        BY <1>4, <4>3
      <4>7. QED
        BY <1>1, <3>3, <4>1, <4>2, <4>5, <4>6, Constants
    <3>6. QED
      BY <1>8, <3>4, <3>5
  <2>2. f.count = 1 /\ f.windowStart = at /\ f.lastSeen = at
    BY <1>3, <1>8
  <2>3. EntryOK(f, Append(s, now), LastSweep)
    <3> HIDE DEF s, n
    <3>1. \A i \in 1..(Len(s) - Rpm) : s[i] + Window <= at + MaxLag
      BY <2>1 DEF n
    <3>2. QED
      BY <1>1, <1>2, <2>2, <3>1, NewWindow
  <2>4. \A i \in 1..(n + 1 - 2 * Rpm) : s[i] + Window <= now + MaxLag
    <3> HIDE DEF s, n
    <3>1. SUFFICES ASSUME NEW i \in 1..(n + 1 - 2 * Rpm) PROVE s[i] + Window <= now + MaxLag
      OBVIOUS
    <3>2. i \in 1..(n - Rpm) /\ i \in 1..n
      BY <1>4, Constants
    <3>3. s[i] \in Nat /\ s[i] + Window <= at + MaxLag
      BY <1>4, <2>1, <3>2
    <3>4. QED
      BY <1>1, <3>3, Constants
  <2>5. QED
    BY <2>3, <2>4 DEF f, e, at, k
<1>9. CASE Has(k) /\ entries[k] \in Entry /\ e = entries[k]
  <2>1. EntryOK(e, s, LastSweep)
    BY <1>6, <1>9
  <2>2. EntryOK(f, Append(s, now), LastSweep)
    <3> HIDE DEF s, n
    <3>1. e \in Entry
      BY <1>9
    <3>2. QED
      BY <1>1, <1>2, <1>7, <2>1, <3>1, SameWindow DEF f
  <2>3. \A i \in 1..(n + 1 - 2 * Rpm) : s[i] + Window <= now + MaxLag
    <3> HIDE DEF s, n
    <3> DEFINE c == e.count
               ws == e.windowStart
    <3>1. c \in Nat /\ ws \in Nat
      BY <1>9, Constants DEF Entry, Times
    <3>2. /\ c >= 1 /\ c <= n /\ ws <= s[n - c + 1]
          /\ \A i \in 1..(n - c - Rpm) : s[i] + Window <= ws + MaxLag
      BY <2>1 DEF EntryOK, n
    <3>3. c < Rpm
      BY <1>7
    <3> HIDE DEF c, ws
    <3>4. n - c + 1 \in 1..n
      BY <1>4, <3>1, <3>2, Shifted
    <3>5. s[n - c + 1] \in Nat /\ s[n - c + 1] <= now
      BY <1>4, <1>5, <3>4
    <3>6. SUFFICES ASSUME NEW i \in 1..(n + 1 - 2 * Rpm) PROVE s[i] + Window <= now + MaxLag
      OBVIOUS
    <3>7. i \in 1..(n - c - Rpm) /\ i \in 1..n
      BY <1>4, <3>1, <3>3, Constants
    <3>8. s[i] \in Nat /\ s[i] + Window <= ws + MaxLag
      BY <1>4, <3>2, <3>7
    <3>9. QED
      BY <1>1, <3>1, <3>2, <3>5, <3>8, Constants
  <2>4. QED
    BY <2>2, <2>3 DEF f, e, at, k
<1>10. QED
  BY <1>3, <1>8, <1>9
-----------------------------------------------------------------------------
(* The steps *)

\* Arithmetic on the next value of a variable, for any three numbers.
LEMMA OneTickLater ==
  \A m, a, d \in Int : m - a < d => m + 1 <= a + d
OBVIOUS

\* A request that reads the clock, or has answered, touches no entry.
LEMMA StepAside ==
  ASSUME LimiterInv, NEW g \in Goroutines,
         (\E k \in Keys : ReadClock(g, k)) \/ Respond(g)
  PROVE  LimiterInv'
<1>1. UNCHANGED <<now, entries, evictor, granted>>
  BY DEF ReadClock, Respond
<1>2. PICK r : /\ request' = [request EXCEPT ![g] = r]
               /\ \/ r = IdleRequest
                  \/ \E k \in Keys : r = [pc |-> "lock", key |-> k, at |-> now]
  BY DEF ReadClock, Respond
<1>3. request'[g] = r /\ \A h \in Goroutines \ {g} : request'[h] = request[h]
  BY <1>2 DEF LimiterInv, TypeOK
<1>4. now \in Times /\ now \in Nat /\ MaxLag \in Nat /\ 0 \in Times
  BY Constants DEF LimiterInv, TypeOK, Times
<1>5. r \in [pc : {"idle", "lock", "denied"}, key : Keys \cup {NoKey}, at : Times]
  BY <1>2, <1>4 DEF IdleRequest
<1>6. TypeOK'
  BY <1>1, <1>2, <1>5 DEF LimiterInv, TypeOK
<1>7. RequestOK(r) /\ r.pc # "denied"
  BY <1>2, <1>4 DEF RequestOK, IdleRequest
<1>8. \A h \in Goroutines : RequestOK(request[h])'
  <2>1. SUFFICES ASSUME NEW h \in Goroutines PROVE RequestOK(request[h])'
    OBVIOUS
  <2>2. RequestOK(request'[h])
    BY <1>3, <1>7 DEF LimiterInv
  <2>3. QED
    BY <1>1, <2>2 DEF RequestOK
<1>9. EvictorOK' /\ LastSweep' = LastSweep /\ TwoBudgetsAtMost'
  BY <1>1 DEF LimiterInv, EvictorOK, LastSweep, TwoBudgetsAtMost
<1>10. \A k \in Keys : KeyOK(k)'
  BY <1>1, <1>9 DEF LimiterInv, KeyOK, Has, GoneOK
<1>11. DenialIsEarned'
  <2>1. SUFFICES ASSUME NEW h \in Goroutines, request'[h].pc = "denied"
                 PROVE  LET times == granted[request[h].key]
                            first == Len(times) - Rpm + 1
                        IN first >= 1 /\ times[first] > request[h].at - Window
    <3>1. \A h \in Goroutines : request'[h].pc = "denied" => request'[h] = request[h]
      BY <1>3, <1>7
    <3>2. QED
      BY <1>1, <3>1 DEF DenialIsEarned
  <2>2. request[h].pc = "denied"
    BY <1>3, <1>7, <2>1
  <2>3. QED
    BY <2>2 DEF LimiterInv, DenialIsEarned
<1>12. QED
  BY <1>6, <1>8, <1>9, <1>10, <1>11 DEF LimiterInv

\* A request is let through.
LEMMA Granted ==
  ASSUME LimiterInv, NEW g \in Goroutines, request[g].pc = "lock",
         Current(request[g].key, request[g].at).count < Rpm,
         entries' = [entries EXCEPT ![request[g].key] =
                       Counted(Current(request[g].key, request[g].at), request[g].at)],
         request' = [request EXCEPT ![g] = IdleRequest],
         granted' = [granted EXCEPT ![request[g].key] = Append(@, now)],
         UNCHANGED <<now, evictor>>
  PROVE  LimiterInv'
<1> DEFINE k == request[g].key
           at == request[g].at
           s == granted[k]
           n == Len(s)
           new == Append(s, now)
           f == Counted(Current(k, at), at)
<1>1. /\ k \in Keys /\ at \in Times /\ now \in Times /\ now \in Nat
      /\ s \in Seq(Times) /\ KeyOK(k)
  BY InHand
<1>2. f \in Entry
  BY <1>1, CurrentCases DEF LimiterInv
<1>3. /\ EntryOK(f, new, LastSweep)
      /\ \A i \in 1..(n + 1 - 2 * Rpm) : s[i] + Window <= now + MaxLag
  BY Grant
<1>4. /\ new \in Seq(Times) /\ n \in Nat /\ Len(new) = n + 1 /\ new[n + 1] = now
      /\ \A i \in 1..n : new[i] = s[i] /\ s[i] \in Nat
  BY <1>1, Appended
<1>5. /\ Nondecreasing(new)
      /\ \A i \in 1..Len(new) : new[i] <= now
  BY <1>1, SortedAppend DEF KeyOK
<1>6. /\ entries' = [entries EXCEPT ![k] = f] /\ granted' = [granted EXCEPT ![k] = new]
      /\ request' = [request EXCEPT ![g] = IdleRequest]
      /\ now' = now /\ evictor' = evictor
  OBVIOUS
<1> HIDE DEF f, at, new, s, n
<1>7. /\ entries'[k] = f /\ granted'[k] = new /\ granted[k] = s
      /\ \A l \in Keys \ {k} : entries'[l] = entries[l] /\ granted'[l] = granted[l]
  BY <1>1, <1>6 DEF LimiterInv, TypeOK, s
<1>8. request'[g] = IdleRequest /\ \A h \in Goroutines \ {g} : request'[h] = request[h]
  BY <1>6 DEF LimiterInv, TypeOK
<1> HIDE DEF k
<1>9. TypeOK'
  <2>1. IdleRequest \in [pc : {"idle", "lock", "denied"}, key : Keys \cup {NoKey}, at : Times]
    BY Constants DEF IdleRequest, Times
  <2>2. request' \in [Goroutines -> [pc : {"idle", "lock", "denied"},
                                    key : Keys \cup {NoKey}, at : Times]]
    BY <1>6, <2>1 DEF LimiterInv, TypeOK
  <2>3. granted' \in [Keys -> Seq(Times)]
    BY <1>1, <1>4, <1>6 DEF LimiterInv, TypeOK
  <2>4. entries' \in [Keys -> Entry \cup {NoEntry}]
    BY <1>1, <1>2, <1>6 DEF LimiterInv, TypeOK
  <2>5. QED
    BY <1>6, <2>2, <2>3, <2>4 DEF LimiterInv, TypeOK
<1>10. \A h \in Goroutines : RequestOK(request[h])'
  BY <1>6, <1>8 DEF LimiterInv, RequestOK, IdleRequest
<1>11. EvictorOK' /\ LastSweep' = LastSweep
  BY <1>6 DEF LimiterInv, EvictorOK, LastSweep
<1>12. \A l \in Keys : KeyOK(l)'
  <2>1. SUFFICES ASSUME NEW l \in Keys PROVE KeyOK(l)'
    OBVIOUS
  <2>2. CASE l = k
    <3>1. f # NoEntry
      BY <1>2 DEF Entry, NoEntry, Times
    <3>2. QED
      BY <1>3, <1>5, <1>6, <1>7, <1>11, <2>2, <3>1 DEF KeyOK, Has
  <2>3. CASE l # k
    <3>1. KeyOK(l) /\ entries'[l] = entries[l] /\ granted'[l] = granted[l]
      BY <1>7, <2>3 DEF LimiterInv
    <3>2. QED
      BY <1>6, <1>11, <3>1 DEF KeyOK, Has, GoneOK
  <2>4. QED
    BY <2>2, <2>3
<1>13. TwoBudgetsAtMost'
  <2>1. SUFFICES ASSUME NEW l \in Keys
                 PROVE  \A i \in 1..(Len(granted'[l]) - 2 * Rpm) :
                          granted'[l][i + 2 * Rpm] - granted'[l][i] >= Window - MaxLag
    BY DEF TwoBudgetsAtMost
  <2>2. CASE l # k
    BY <1>7, <2>1, <2>2 DEF LimiterInv, TwoBudgetsAtMost
  <2>3. CASE l = k
    <3>0. ASSUME \A i \in 1..(n + 1 - 2 * Rpm) :
                   new[i + 2 * Rpm] - new[i] >= Window - MaxLag
          PROVE  \A i \in 1..(Len(granted'[l]) - 2 * Rpm) :
                   granted'[l][i + 2 * Rpm] - granted'[l][i] >= Window - MaxLag
      <4>1. granted'[l] = new
        BY <1>7, <2>3
      <4>2. \A i \in 1..(Len(new) - 2 * Rpm) :
              new[i + 2 * Rpm] - new[i] >= Window - MaxLag
        <5>1. Len(new) = n + 1
          BY <1>4
        <5>2. QED
          BY <1>4, <3>0, <5>1, Constants
      <4>3. QED
        BY <4>1, <4>2
    <3>1. SUFFICES ASSUME NEW i \in 1..(n + 1 - 2 * Rpm)
                   PROVE  new[i + 2 * Rpm] - new[i] >= Window - MaxLag
      BY <3>0
    <3>2. i \in 1..n /\ i + 2 * Rpm \in 1..(n + 1)
      BY <1>4, <3>1, Constants
    <3>3. CASE i + 2 * Rpm = n + 1
      <4>1. new[i] = s[i] /\ s[i] \in Nat /\ new[i + 2 * Rpm] = now
        BY <1>4, <3>2, <3>3
      <4>2. s[i] + Window <= now + MaxLag
        BY <1>3, <3>1
      <4>3. now - s[i] >= Window - MaxLag
        BY <1>1, <4>1, <4>2, Constants
      <4>4. QED
        BY <4>1, <4>3
    <3>4. CASE i + 2 * Rpm # n + 1
      <4>1. i + 2 * Rpm \in 1..n /\ i \in 1..(n - 2 * Rpm)
        BY <1>4, <3>1, <3>2, <3>4, Constants
      <4>2. s[i + 2 * Rpm] - s[i] >= Window - MaxLag
        BY <1>1, <1>7, <4>1 DEF LimiterInv, TwoBudgetsAtMost, n
      <4>3. new[i + 2 * Rpm] = s[i + 2 * Rpm] /\ new[i] = s[i]
        BY <1>4, <3>2, <4>1
      <4>4. QED
        BY <4>2, <4>3
    <3>5. QED
      BY <3>3, <3>4
  <2>4. QED
    BY <2>2, <2>3
<1>14. DenialIsEarned'
  <2>1. SUFFICES ASSUME NEW h \in Goroutines, request'[h].pc = "denied"
                 PROVE  LET times == granted'[request'[h].key]
                            first == Len(times) - Rpm + 1
                        IN first >= 1 /\ times[first] > request'[h].at - Window
    BY DEF DenialIsEarned
  <2>2. request'[h] = request[h] /\ request[h].pc = "denied"
    BY <1>8, <2>1 DEF IdleRequest
  <2>3. /\ Len(granted[request[h].key]) - Rpm + 1 >= 1
        /\ granted[request[h].key][Len(granted[request[h].key]) - Rpm + 1]
             > request[h].at - Window
    BY <2>2 DEF LimiterInv, DenialIsEarned
  <2>4. request[h].key \in Keys
    BY <2>2 DEF LimiterInv, RequestOK
  <2>5. CASE request[h].key # k
    BY <1>7, <2>2, <2>3, <2>4, <2>5
  <2>6. CASE request[h].key = k
    <3> DEFINE first == n - Rpm + 1
    <3>1. first >= 1 /\ s[first] > request[h].at - Window
      BY <1>7, <2>3, <2>6 DEF n
    <3>2. first \in 1..n /\ first \in 1..(n + 1) /\ first + 1 \in 1..(n + 1) /\ first <= first + 1
      BY <1>4, <3>1, Constants
    <3> HIDE DEF first
    <3>3. /\ new[first] <= new[first + 1] /\ new[first] = s[first]
          /\ new[first] \in Nat /\ new[first + 1] \in Nat
      <4>1. new[first] <= new[first + 1] /\ new[first] = s[first]
        BY <1>4, <1>5, <3>2 DEF Nondecreasing
      <4>2. \A i \in 1..(n + 1) : new[i] \in Nat
        <5>1. \A i \in 1..(n + 1) : i \in 1..n \/ i = n + 1
          BY <1>4
        <5>2. QED
          BY <1>1, <1>4, <5>1
      <4>3. QED
        BY <3>2, <4>1, <4>2
    <3>4. request[h].at \in Nat
      BY Constants DEF LimiterInv, TypeOK, Times
    <3>5. new[first + 1] > request[h].at - Window
      BY <3>1, <3>3, <3>4, Constants
    <3>6. Len(new) - Rpm + 1 = first + 1 /\ first + 1 >= 1
      BY <1>4, <3>2, Constants DEF first
    <3>7. granted'[request'[h].key] = new
      BY <1>7, <2>2, <2>6
    <3>8. QED
      BY <2>2, <3>5, <3>6, <3>7
  <2>7. QED
    BY <2>5, <2>6
<1>15. QED
  BY <1>9, <1>10, <1>11, <1>12, <1>13, <1>14 DEF LimiterInv

\* A request is refused: its key has an entry in its window, and the count of
\* that entry is the budget.
LEMMA RefusedStep ==
  ASSUME LimiterInv, NEW g \in Goroutines, request[g].pc = "lock",
         Current(request[g].key, request[g].at).count >= Rpm,
         entries' = [entries EXCEPT ![request[g].key] =
                       Refused(Current(request[g].key, request[g].at), request[g].at)],
         request' = [request EXCEPT ![g].pc = "denied"],
         UNCHANGED <<now, evictor, granted>>
  PROVE  LimiterInv'
<1> DEFINE k == request[g].key
           at == request[g].at
           s == granted[k]
           n == Len(s)
           e == Current(k, at)
<1>1. /\ k \in Keys /\ at \in Times /\ now \in Times /\ at \in Nat /\ now \in Nat
      /\ s \in Seq(Times) /\ KeyOK(k)
  BY InHand
<1>2. /\ e.count \in Nat
      /\ \/ e.count = 0
         \/ /\ Has(k) /\ entries[k] \in Entry
            /\ at - entries[k].windowStart < Window
            /\ e = entries[k]
  BY <1>1, CurrentCases DEF LimiterInv
<1>3. e.count >= Rpm
  OBVIOUS
<1>4. /\ Has(k) /\ entries[k] \in Entry /\ e = entries[k]
      /\ at - entries[k].windowStart < Window
  BY <1>2, <1>3, Constants
<1>5. entries' = entries
  BY <1>1, <1>4 DEF Refused, LimiterInv, TypeOK
<1>6. request' = [request EXCEPT ![g] = [request[g] EXCEPT !.pc = "denied"]]
  OBVIOUS
<1>7. now' = now /\ evictor' = evictor /\ granted' = granted
  OBVIOUS
<1>8. n - Rpm + 1 >= 1 /\ s[n - Rpm + 1] > at - Window
  <2> DEFINE c == entries[k].count
             ws == entries[k].windowStart
  <2>1. c \in Nat /\ ws \in Nat /\ at - ws < Window /\ c >= Rpm
    BY <1>3, <1>4, Constants DEF Entry, Times
  <2>2. c <= Rpm /\ c <= n /\ ws <= s[n - c + 1] /\ c >= 1
    BY <1>1, <1>4 DEF KeyOK, EntryOK
  <2>3. n \in Nat /\ \A i \in 1..n : s[i] \in Nat
    BY <1>1, Appended
  <2> HIDE DEF c, ws, n, s, at, e
  <2>4. c = Rpm /\ n - c + 1 \in 1..n
    BY <2>1, <2>2, <2>3, Shifted, Constants
  <2>5. s[n - c + 1] \in Nat
    BY <2>3, <2>4
  <2>6. s[n - c + 1] > at - Window
    BY <1>1, <2>1, <2>2, <2>5, Constants
  <2>7. n - Rpm + 1 >= 1
    BY <2>2, <2>3, <2>4, Constants
  <2>8. QED
    BY <2>4, <2>6, <2>7
<1>9. request[g] \in [pc : {"idle", "lock", "denied"}, key : Keys \cup {NoKey}, at : Times]
  BY DEF LimiterInv, TypeOK
<1> DEFINE r == [request[g] EXCEPT !.pc = "denied"]
<1>10. /\ r \in [pc : {"idle", "lock", "denied"}, key : Keys \cup {NoKey}, at : Times]
       /\ r.pc = "denied" /\ r.key = k /\ r.at = at
  BY <1>9
<1> HIDE DEF r
<1>11. request'[g] = r /\ \A h \in Goroutines \ {g} : request'[h] = request[h]
  BY <1>6 DEF LimiterInv, TypeOK, r
<1>12. TypeOK'
  <2>1. request' = [request EXCEPT ![g] = r]
    BY <1>6 DEF r
  <2> HIDE DEF k, at
  <2>2. request' \in [Goroutines -> [pc : {"idle", "lock", "denied"},
                                    key : Keys \cup {NoKey}, at : Times]]
    BY <1>10, <2>1 DEF LimiterInv, TypeOK
  <2>3. QED
    BY <1>5, <1>7, <2>2 DEF LimiterInv, TypeOK
<1>13. \A h \in Goroutines : RequestOK(request[h])'
  <2>1. SUFFICES ASSUME NEW h \in Goroutines PROVE RequestOK(request[h])'
    OBVIOUS
  <2>2. RequestOK(request'[h])
    <3>1. CASE h = g
      BY <1>1, <1>10, <1>11, <3>1 DEF RequestOK
    <3>2. CASE h # g
      BY <1>11, <3>2 DEF LimiterInv
    <3>3. QED
      BY <3>1, <3>2
  <2>3. QED
    BY <1>7, <2>2 DEF RequestOK
<1>14. EvictorOK' /\ LastSweep' = LastSweep /\ TwoBudgetsAtMost'
  BY <1>7 DEF LimiterInv, EvictorOK, LastSweep, TwoBudgetsAtMost
<1>15. \A l \in Keys : KeyOK(l)'
  BY <1>5, <1>7, <1>14 DEF LimiterInv, KeyOK, Has, GoneOK
<1>16. DenialIsEarned'
  <2>1. SUFFICES ASSUME NEW h \in Goroutines, request'[h].pc = "denied"
                 PROVE  LET times == granted[request'[h].key]
                            first == Len(times) - Rpm + 1
                        IN first >= 1 /\ times[first] > request'[h].at - Window
    BY <1>7 DEF DenialIsEarned
  <2>2. CASE h = g
    BY <1>8, <1>10, <1>11, <2>2
  <2>3. CASE h # g
    BY <1>11, <2>1, <2>3 DEF LimiterInv, DenialIsEarned
  <2>4. QED
    BY <2>2, <2>3
<1>17. QED
  BY <1>12, <1>13, <1>14, <1>15, <1>16 DEF LimiterInv

LEMMA AllowStep ==
  ASSUME LimiterInv, NEW g \in Goroutines, Allow(g)
  PROVE  LimiterInv'
<1>1. CASE Current(request[g].key, request[g].at).count < Rpm
  <2>1. Current(request[g].key, request[g].at).count \in Nat
    BY InHand, CurrentCases DEF Allow, LimiterInv
  <2>2. ~(Current(request[g].key, request[g].at).count >= Rpm)
    BY <1>1, <2>1, Constants
  <2>3. QED
    BY <1>1, <2>2, Granted DEF Allow
<1>2. CASE ~(Current(request[g].key, request[g].at).count < Rpm)
  BY <1>2, RefusedStep DEF Allow
<1>3. QED
  BY <1>1, <1>2

\* The sweep reads the clock.
LEMMA SweepStarts ==
  ASSUME LimiterInv, EvictReadsClock
  PROVE  LimiterInv'
<1> DEFINE due == evictor.due
<1>1. /\ evictor.pc = "wait" /\ now >= due /\ due \in Nat /\ now \in Nat /\ now \in Times
      /\ now <= due + MaxLag
  BY Constants DEF LimiterInv, TypeOK, EvictReadsClock, EvictorOK, Times
<1>2. evictor' = [pc |-> "lock", at |-> now, due |-> due + EvictEvery]
  BY DEF EvictReadsClock
<1>3. now' = now /\ entries' = entries /\ request' = request /\ granted' = granted
  BY DEF EvictReadsClock
<1>4. evictor'.pc = "lock" /\ evictor'.at = now /\ evictor'.due = due + EvictEvery
  BY <1>2
<1>5. /\ due + EvictEvery \in Nat
      /\ due + EvictEvery - EvictEvery = due
      /\ due + EvictEvery - 2 * EvictEvery = due - EvictEvery
      /\ now <= now + MaxLag
  BY <1>1, Constants
<1>6. LastSweep' = LastSweep
  <2>1. LastSweep' = (due + EvictEvery) - 2 * EvictEvery
    BY <1>4 DEF LastSweep
  <2>2. LastSweep = due - EvictEvery
    BY <1>1 DEF LastSweep
  <2>3. QED
    BY <1>1, <1>5, <2>1, <2>2, Constants
<1> HIDE DEF due
<1>7. TypeOK'
  BY <1>1, <1>2, <1>3, <1>5 DEF LimiterInv, TypeOK
<1>8. EvictorOK'
  <2>1. /\ now <= now /\ (due + EvictEvery) - EvictEvery <= now
        /\ now <= (due + EvictEvery) - EvictEvery + MaxLag
    BY <1>1, <1>5, Constants
  <2>2. QED
    BY <1>3, <1>4, <1>5, <2>1 DEF EvictorOK
<1>9. \A k \in Keys : KeyOK(k)'
  BY <1>3, <1>6 DEF LimiterInv, KeyOK, Has, GoneOK
<1>10. (\A g \in Goroutines : RequestOK(request[g])') /\ TwoBudgetsAtMost' /\ DenialIsEarned'
  BY <1>3 DEF LimiterInv, RequestOK, TwoBudgetsAtMost, DenialIsEarned
<1>11. QED
  BY <1>7, <1>8, <1>9, <1>10 DEF LimiterInv

\* The sweep takes what has been idle, and that is long ago; what it leaves has
\* been seen within the TTL.
LEMMA SweepEnds ==
  ASSUME LimiterInv, Evict
  PROVE  LimiterInv'
<1> DEFINE due == evictor.due
           at == evictor.at
<1>1. /\ evictor.pc = "lock" /\ due \in Nat /\ at \in Nat /\ now \in Nat
      /\ at <= now /\ now <= at + MaxLag
      /\ due - EvictEvery <= at /\ at <= due - EvictEvery + MaxLag
      /\ LastSweep = due - 2 * EvictEvery
  BY Constants DEF LimiterInv, TypeOK, Evict, EvictorOK, LastSweep, Times
<1>2. entries' = [k \in Keys |-> IF Has(k) /\ Stale(entries[k], at)
                                 THEN NoEntry ELSE entries[k]]
  BY DEF Evict
<1>3. now' = now /\ request' = request /\ granted' = granted
  BY DEF Evict
<1>4. evictor' = [evictor EXCEPT !.pc = "wait", !.at = 0]
  BY DEF Evict
<1>5. evictor' = [pc |-> "wait", at |-> 0, due |-> due]
  BY <1>4 DEF LimiterInv, TypeOK
<1>6. evictor'.pc = "wait" /\ evictor'.due = due
  BY <1>5
<1>7. LastSweep' = due - EvictEvery
  BY <1>6 DEF LastSweep
<1> HIDE DEF due, at
<1>8. TypeOK'
  <2>1. entries' \in [Keys -> Entry \cup {NoEntry}]
    BY <1>2 DEF LimiterInv, TypeOK
  <2>2. QED
    BY <1>1, <1>3, <1>5, <2>1, Constants DEF LimiterInv, TypeOK, Times
<1>9. EvictorOK'
  <2>1. due - EvictEvery <= now /\ now <= due + MaxLag
    BY <1>1, Constants
  <2>2. QED
    BY <1>3, <1>6, <2>1 DEF EvictorOK
<1>10. \A k \in Keys : KeyOK(k)'
  <2>1. SUFFICES ASSUME NEW k \in Keys PROVE KeyOK(k)'
    OBVIOUS
  <2> DEFINE s == granted[k]
             e == entries[k]
             n == Len(s)
  <2>2. s \in Seq(Times) /\ KeyOK(k)
    BY DEF LimiterInv, TypeOK
  <2>3. n \in Nat /\ \A i \in 1..n : s[i] \in Nat
    BY <2>2, Appended
  <2>4. Has(k) => e \in Entry /\ EntryOK(e, s, LastSweep)
    BY <2>2 DEF LimiterInv, TypeOK, KeyOK, Has
  <2>5. Nondecreasing(granted[k])' /\ \A i \in 1..Len(granted'[k]) : granted'[k][i] <= now'
    BY <1>3, <2>2 DEF KeyOK, Nondecreasing
  <2>6. CASE ~Has(k)
    <3>1. entries'[k] = NoEntry
      BY <1>2, <2>6 DEF Has
    <3>2. QED
      BY <1>3, <2>2, <2>5, <2>6, <3>1 DEF KeyOK, Has, GoneOK
  <2>7. CASE Has(k) /\ Stale(e, at)
    <3>1. entries'[k] = NoEntry
      BY <1>2, <2>7
    <3>2. s[n] + Window + MaxLag <= now
      <4> DEFINE ls == e.lastSeen
      <4>1. ls \in Nat /\ at - ls > IdleTTL
        BY <2>4, <2>7, Constants DEF Entry, Times, Stale
      <4>2. s[n] <= ls + MaxLag /\ e.count >= 1 /\ e.count <= n
        BY <2>4, <2>7 DEF EntryOK
      <4>3. e.count \in Nat
        BY <2>4, <2>7 DEF Entry
      <4> HIDE DEF ls, n, s, e
      <4>4. n \in 1..n
        BY <2>3, <4>2, <4>3
      <4>5. s[n] \in Nat
        BY <2>3, <4>4
      <4>6. QED
        BY <1>1, <4>1, <4>2, <4>5, Constants
    <3>3. QED
      BY <1>3, <2>5, <3>1, <3>2 DEF KeyOK, Has, GoneOK
  <2>8. CASE Has(k) /\ ~Stale(e, at)
    <3>1. entries'[k] = e
      BY <1>2, <2>8
    <3>2. due - EvictEvery <= e.lastSeen + IdleTTL
      <4> DEFINE ls == e.lastSeen
      <4>1. ls \in Nat /\ ~(at - ls > IdleTTL)
        BY <2>4, <2>8, Constants DEF Entry, Times, Stale
      <4> HIDE DEF ls
      <4>2. due - EvictEvery <= ls + IdleTTL
        BY <1>1, <4>1, Constants
      <4>3. QED
        BY <4>2 DEF ls
    <3>3. EntryOK(e, s, due - EvictEvery)
      BY <2>4, <2>8, <3>2 DEF EntryOK
    <3>4. EntryOK(entries[k], granted[k], LastSweep)'
      BY <1>3, <1>7, <3>1, <3>3
    <3>5. QED
      BY <2>5, <2>8, <3>1, <3>4 DEF KeyOK, Has
  <2>9. QED
    BY <2>6, <2>7, <2>8
<1>11. (\A g \in Goroutines : RequestOK(request[g])') /\ TwoBudgetsAtMost' /\ DenialIsEarned'
  BY <1>3 DEF LimiterInv, RequestOK, TwoBudgetsAtMost, DenialIsEarned
<1>12. QED
  BY <1>8, <1>9, <1>10, <1>11 DEF LimiterInv

\* Time passes, for nobody longer than the wait allows.
LEMMA TimePasses ==
  ASSUME LimiterInv, Tick
  PROVE  LimiterInv'
<1>1. now \in Nat /\ now + 1 \in Times /\ now' = now + 1
  BY Constants DEF LimiterInv, TypeOK, Tick, Times
<1>2. entries' = entries /\ request' = request /\ evictor' = evictor /\ granted' = granted
  BY DEF Tick
<1> DEFINE next == now + 1
<1>3. next \in Nat /\ now <= next
  BY <1>1
<1>4. now' = next /\ next \in Times
  BY <1>1
<1>5. TypeOK'
  BY <1>2, <1>4 DEF LimiterInv, TypeOK
<1>6. \A g \in Goroutines : RequestOK(request[g])'
  <2>1. SUFFICES ASSUME NEW g \in Goroutines PROVE RequestOK(request[g])'
    OBVIOUS
  <2>2. RequestOK(request[g]) /\ request[g].at \in Nat
    BY Constants DEF LimiterInv, TypeOK, Times
  <2>3. request[g].pc = "lock" => request[g].at <= next /\ next <= request[g].at + MaxLag
    BY <1>1, <2>2, Constants, OneTickLater DEF RequestOK, Tick
  <2> HIDE DEF next
  <2>4. QED
    BY <1>2, <1>4, <2>2, <2>3 DEF RequestOK
<1>7. EvictorOK'
  <2>1. EvictorOK /\ evictor.at \in Nat /\ evictor.due \in Nat
    BY Constants DEF LimiterInv, TypeOK, Times
  <2>2. evictor.pc = "wait" => evictor.due - EvictEvery <= next /\ next <= evictor.due + MaxLag
    BY <1>1, <2>1, Constants, OneTickLater DEF EvictorOK, Tick
  <2>3. evictor.pc = "lock" => evictor.at <= next /\ next <= evictor.at + MaxLag
    BY <1>1, <2>1, Constants, OneTickLater DEF EvictorOK, Tick
  <2> HIDE DEF next
  <2>4. QED
    BY <1>2, <1>4, <2>1, <2>2, <2>3 DEF EvictorOK
<1>8. \A k \in Keys : KeyOK(k)'
  <2>1. SUFFICES ASSUME NEW k \in Keys PROVE KeyOK(k)'
    OBVIOUS
  <2> DEFINE s == granted[k]
             n == Len(s)
  <2>2. s \in Seq(Times) /\ KeyOK(k)
    BY DEF LimiterInv, TypeOK
  <2>3. n \in Nat /\ \A i \in 1..n : s[i] \in Nat
    BY <2>2, Appended
  <2> HIDE DEF next
  <2>4. \A i \in 1..n : s[i] <= next
    BY <1>1, <1>3, <2>2, <2>3 DEF KeyOK
  <2>5. ~Has(k) /\ s # <<>> => s[n] + Window + MaxLag <= next
    <3>1. s # <<>> => n \in 1..n
      BY <2>2, <2>3, EmptySeq
    <3>2. SUFFICES ASSUME ~Has(k), s # <<>> PROVE s[n] + Window + MaxLag <= next
      OBVIOUS
    <3>3. s[n] + Window + MaxLag <= now
      BY <2>2, <3>2 DEF KeyOK, GoneOK
    <3>4. s[n] \in Nat
      BY <2>3, <3>1, <3>2
    <3> HIDE DEF s, n
    <3>5. QED
      BY <1>1, <1>3, <3>3, <3>4, Constants
  <2>6. LastSweep' = LastSweep
    BY <1>2 DEF LastSweep
  <2>7. QED
    BY <1>2, <1>4, <2>2, <2>4, <2>5, <2>6 DEF KeyOK, Has, GoneOK
<1>9. TwoBudgetsAtMost' /\ DenialIsEarned'
  BY <1>2 DEF LimiterInv, TwoBudgetsAtMost, DenialIsEarned
<1>10. QED
  BY <1>5, <1>6, <1>7, <1>8, <1>9 DEF LimiterInv
-----------------------------------------------------------------------------
(* The theorems *)

\* Every step of the limiter keeps its entries in line with what was let
\* through (allow and evictStale of internal/middleware/ratelimit.go).
THEOREM LimiterInvariant == Spec => []LimiterInv
<1>1. Init => LimiterInv
  <2>1. SUFFICES ASSUME Init PROVE LimiterInv
    OBVIOUS
  <2>2. TypeOK
    <3>1. IdleRequest \in [pc : {"idle", "lock", "denied"}, key : Keys \cup {NoKey}, at : Times]
      BY Constants DEF IdleRequest, Times
    <3>2. <<>> \in Seq(Times)
      OBVIOUS
    <3>3. 0 \in Times /\ EvictEvery \in Nat
      BY Constants DEF Times
    <3>4. QED
      BY <2>1, <3>1, <3>2, <3>3 DEF Init, TypeOK
  <2>3. \A g \in Goroutines : RequestOK(request[g]) /\ request[g].pc = "idle"
    BY <2>1 DEF Init, RequestOK, IdleRequest
  <2>4. EvictorOK
    BY <2>1, Constants DEF Init, EvictorOK
  <2>5. \A k \in Keys : KeyOK(k) /\ Len(granted[k]) = 0
    <3>1. SUFFICES ASSUME NEW k \in Keys PROVE KeyOK(k) /\ Len(granted[k]) = 0
      OBVIOUS
    <3>2. granted[k] = <<>> /\ Len(granted[k]) = 0 /\ entries[k] = NoEntry
      BY <2>1 DEF Init
    <3>3. ~Has(k) /\ GoneOK(granted[k])
      BY <3>2 DEF Has, GoneOK
    <3>4. 1..Len(granted[k]) = {}
      BY <3>2
    <3>5. Nondecreasing(granted[k]) /\ \A i \in 1..Len(granted[k]) : granted[k][i] <= now
      BY <3>4 DEF Nondecreasing
    <3>6. QED
      BY <3>2, <3>3, <3>5 DEF KeyOK
  <2>6. TwoBudgetsAtMost
    <3>1. 1..(0 - 2 * Rpm) = {}
      BY Constants
    <3>2. \A k \in Keys : 1..(Len(granted[k]) - 2 * Rpm) = {}
      BY <2>5, <3>1
    <3>3. QED
      BY <3>2 DEF TwoBudgetsAtMost
  <2>7. DenialIsEarned
    BY <2>3 DEF DenialIsEarned
  <2>8. QED
    BY <2>2, <2>3, <2>4, <2>5, <2>6, <2>7 DEF LimiterInv
<1>2. LimiterInv /\ [Next]_vars => LimiterInv'
  <2>1. SUFFICES ASSUME LimiterInv, [Next]_vars PROVE LimiterInv'
    OBVIOUS
  <2>2. ASSUME NEW g \in Goroutines, \E k \in Keys : ReadClock(g, k) PROVE LimiterInv'
    BY <2>1, <2>2, StepAside
  <2>3. ASSUME NEW g \in Goroutines, Allow(g) PROVE LimiterInv'
    BY <2>1, <2>3, AllowStep
  <2>4. ASSUME NEW g \in Goroutines, Respond(g) PROVE LimiterInv'
    BY <2>1, <2>4, StepAside
  <2>5. CASE EvictReadsClock
    BY <2>1, <2>5, SweepStarts
  <2>6. CASE Evict
    BY <2>1, <2>6, SweepEnds
  <2>7. CASE Tick
    BY <2>1, <2>7, TimePasses
  <2>8. CASE UNCHANGED vars
    <3>1. LastSweep' = LastSweep
      BY <2>8 DEF vars, LastSweep
    <3>2. \A k \in Keys : KeyOK(k)'
      BY <2>1, <2>8, <3>1 DEF vars, LimiterInv, KeyOK, Has, GoneOK
    <3>3. TypeOK' /\ EvictorOK' /\ \A g \in Goroutines : RequestOK(request[g])'
      BY <2>1, <2>8 DEF vars, LimiterInv, TypeOK, EvictorOK, RequestOK
    <3>4. TwoBudgetsAtMost' /\ DenialIsEarned'
      BY <2>1, <2>8 DEF vars, LimiterInv, TwoBudgetsAtMost, DenialIsEarned
    <3>5. QED
      BY <3>2, <3>3, <3>4 DEF LimiterInv
  <2>9. QED
    BY <2>1, <2>2, <2>3, <2>4, <2>5, <2>6, <2>7, <2>8 DEF Next
<1>3. QED
  BY <1>1, <1>2, PTL DEF Spec

\* The clock, the entries, the goroutines and the lists of times keep their types.
THEOREM LimiterTypeCorrect == Spec => []TypeOK
<1>1. LimiterInv => TypeOK
  BY DEF LimiterInv
<1>2. QED
  BY <1>1, LimiterInvariant, PTL

\* However requests wait for the mutex and whenever entries are evicted, two
\* budgets and one request more take a window, less one wait (the roll-over in
\* allow).
THEOREM BurstIsBounded == Spec => []TwoBudgetsAtMost
<1>1. LimiterInv => TwoBudgetsAtMost
  BY DEF LimiterInv
<1>2. QED
  BY <1>1, LimiterInvariant, PTL

\* Nobody is refused who has not a whole budget of requests let through in the
\* window behind him (the count that allow compares).
THEOREM RefusedForAReason == Spec => []DenialIsEarned
<1>1. LimiterInv => DenialIsEarned
  BY DEF LimiterInv
<1>2. QED
  BY <1>1, LimiterInvariant, PTL

\* An entry outlives the last request its key had let through by the TTL, one
\* sweep and the waits at most (evictStale).
THEOREM IdleEntriesLeave == Spec => []IdleEntriesReclaimed
<1>1. LimiterInv => IdleEntriesReclaimed
  <2>1. SUFFICES ASSUME LimiterInv, NEW k \in Keys, Has(k)
                 PROVE  /\ granted[k] # <<>>
                        /\ granted[k][Len(granted[k])]
                             >= now - IdleTTL - EvictEvery - 2 * MaxLag
    BY DEF IdleEntriesReclaimed
  <2> DEFINE s == granted[k]
             n == Len(s)
             e == entries[k]
             ls == e.lastSeen
  <2>2. s \in Seq(Times) /\ e \in Entry /\ EntryOK(e, s, LastSweep)
    BY <2>1 DEF LimiterInv, TypeOK, KeyOK, Has
  <2>3. n \in Nat /\ \A i \in 1..n : s[i] \in Nat
    BY <2>2, Appended
  <2>4. ls \in Nat /\ e.count \in Nat
    BY <2>2, Constants DEF Entry, Times
  <2>5. e.count >= 1 /\ e.count <= n /\ ls <= s[n] /\ LastSweep <= ls + IdleTTL
    BY <2>2 DEF EntryOK
  <2>6. now \in Nat /\ LastSweep \in Int /\ LastSweep >= now - EvictEvery - 2 * MaxLag
    BY <2>1, SweepIsPast DEF LimiterInv
  <2> DEFINE sweep == LastSweep
  <2> HIDE DEF n, s, e, ls, sweep
  <2>7. n \in 1..n /\ n >= 1
    BY <2>3, <2>4, <2>5
  <2>8. s[n] \in Nat
    BY <2>3, <2>7
  <2>9. s[n] >= now - IdleTTL - EvictEvery - 2 * MaxLag
    <3>1. sweep \in Int /\ sweep >= now - EvictEvery - 2 * MaxLag /\ sweep <= ls + IdleTTL
      BY <2>5, <2>6 DEF sweep
    <3>2. QED
      BY <2>4, <2>5, <2>6, <2>8, <3>1, Constants
  <2>10. s # <<>>
    BY <2>7 DEF n
  <2>11. QED
    BY <2>9, <2>10 DEF s, n
<1>2. QED
  BY <1>1, LimiterInvariant, PTL
=============================================================================
