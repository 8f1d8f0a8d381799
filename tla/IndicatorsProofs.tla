-------------------------- MODULE IndicatorsProofs --------------------------
(***************************************************************************)
(* The indicators and the evaluators for any candles and any periods.  The *)
(* invariant says what each running value stands for after the candles     *)
(* read so far, and that the last signal of an evaluator is the side this  *)
(* value tells.  Sums are recursive functions: that one exists, and only   *)
(* one, is shown first, by a least counterexample.                         *)
(***************************************************************************)
EXTENDS Indicators, SequenceTheorems, WellFoundedInduction, TLAPS

LessThan == {p \in Nat \X Nat : p[1] < p[2]}

\* A set of natural numbers that is not empty has a least element.
LEMMA LeastNumber ==
  ASSUME NEW T \in SUBSET Nat, T # {}
  PROVE  \E m \in T : \A n \in T : m <= n
<1>1. IsWellFoundedOn(LessThan, Nat)
  <2>1. OpToRel(<, Nat) = LessThan
    BY DEF OpToRel, LessThan
  <2> QED
    BY <2>1, NatLessThanWellFounded
<1>2. PICK m \in T : \A n \in T : ~(<<n, m>> \in LessThan)
  BY <1>1, WFMin
<1>3. ASSUME NEW n \in T PROVE m <= n
  <2>1. ~(n < m)
    BY <1>2 DEF LessThan
  <2> QED
    BY <2>1
<1> QED
  BY <1>3

-----------------------------------------------------------------------------
(* Sums.                                                                   *)

\* f is the running sum of vals from lo on, up to n.
Running(f, vals, lo, n) ==
  f = [k \in 0..n |-> IF k < lo THEN 0 ELSE f[k - 1] + vals[k]]

LEMMA RunningExtended ==
  ASSUME NEW T \in SUBSET Int, 0 \in T, \A a, b \in T : a + b \in T,
         NEW lo \in Nat \ {0}, NEW n \in Nat, NEW vals, vals[n + 1] \in T,
         NEW f \in [0..n -> T], Running(f, vals, lo, n)
  PROVE  \E g \in [0..(n + 1) -> T] :
           /\ Running(g, vals, lo, n + 1)
           /\ \A k \in 0..n : g[k] = f[k]
           /\ g[n + 1] = IF n + 1 < lo THEN 0 ELSE f[n] + vals[n + 1]
<1> DEFINE top == IF n + 1 < lo THEN 0 ELSE f[n] + vals[n + 1]
           g == [k \in 0..(n + 1) |-> IF k = n + 1 THEN top ELSE f[k]]
<1>1. top \in T
  <2>1. f[n] \in T
    OBVIOUS
  <2> QED
    BY <2>1
<1>2. \A k \in 0..(n + 1) : k \in 0..n \/ k = n + 1
  OBVIOUS
<1> HIDE DEF top
<1>3. g \in [0..(n + 1) -> T] /\ g[n + 1] = top /\ \A k \in 0..n : g[k] = f[k]
  <2>1. \A k \in 0..(n + 1) : (IF k = n + 1 THEN top ELSE f[k]) \in T
    BY <1>1, <1>2
  <2>2. n + 1 \in 0..(n + 1) /\ \A k \in 0..n : k \in 0..(n + 1) /\ k # n + 1
    OBVIOUS
  <2> QED
    BY <2>1, <2>2
<1>4. ASSUME NEW k \in 0..(n + 1)
      PROVE  g[k] = IF k < lo THEN 0 ELSE g[k - 1] + vals[k]
  <2>1. CASE k = n + 1
    <3>1. (n + 1) - 1 \in 0..n /\ (n + 1) - 1 = n
      OBVIOUS
    <3> QED
      BY <1>3, <2>1, <3>1 DEF top
  <2>2. CASE k \in 0..n
    <3>1. f[k] = IF k < lo THEN 0 ELSE f[k - 1] + vals[k]
      BY <2>2 DEF Running
    <3>2. ~(k < lo) => k - 1 \in 0..n
      BY <2>2
    <3> HIDE DEF g
    <3> QED
      BY <1>3, <2>2, <3>1, <3>2
  <2> QED
    BY <1>2, <2>1, <2>2
<1>5. Running(g, vals, lo, n + 1)
  <2>1. g = [k \in 0..(n + 1) |-> g[k]]
    OBVIOUS
  <2> HIDE DEF g
  <2> QED
    BY <1>4, <2>1 DEF Running
<1> QED
  BY <1>3, <1>5 DEF top

LEMMA RunningExists ==
  ASSUME NEW T \in SUBSET Int, 0 \in T, \A a, b \in T : a + b \in T,
         NEW lo \in Nat \ {0}, NEW n \in Nat, NEW vals, \A k \in 1..n : vals[k] \in T
  PROVE  \E f \in [0..n -> T] : Running(f, vals, lo, n)
<1> DEFINE Has(m) == \E f \in [0..m -> T] : Running(f, vals, lo, m)
           Without == {m \in 0..n : ~Has(m)}
<1>1. SUFFICES ASSUME Without # {} PROVE FALSE
  BY DEF Without
<1>2. PICK m \in Without : \A k \in Without : m <= k
  <2>1. Without \in SUBSET Nat
    OBVIOUS
  <2> HIDE DEF Without
  <2> QED
    BY <1>1, <2>1, LeastNumber
<1>3. CASE m = 0
  <2> DEFINE f == [k \in 0..0 |-> 0]
  <2>1. f \in [0..0 -> T] /\ f[0] = 0
    OBVIOUS
  <2>2. f = [k \in 0..0 |-> IF k < lo THEN 0 ELSE f[k - 1] + vals[k]]
    OBVIOUS
  <2> QED
    BY <1>2, <1>3, <2>1, <2>2 DEF Running
<1>4. CASE m # 0
  <2> DEFINE l == m - 1
  <2>1. l \in Nat /\ l \in 0..n /\ l + 1 = m /\ m \in 1..n /\ ~(m <= l)
    BY <1>2, <1>4
  <2>2. Has(l)
    BY <1>2, <2>1
  <2>3. PICK f \in [0..l -> T] : Running(f, vals, lo, l)
    BY <2>2
  <2>4. vals[l + 1] \in T
    BY <2>1
  <2> HIDE DEF l
  <2>5. \E g \in [0..(l + 1) -> T] : Running(g, vals, lo, l + 1)
    BY <2>1, <2>3, <2>4, RunningExtended
  <2> QED
    BY <1>2, <2>1, <2>5
<1> QED
  BY <1>3, <1>4

LEMMA RunningNumbers ==
  ASSUME NEW lo \in Nat \ {0}, NEW n \in Nat, NEW vals, \A k \in 1..n : vals[k] \in Int
  PROVE  \E f \in [0..n -> Int] : Running(f, vals, lo, n)
<1>1. Int \in SUBSET Int /\ 0 \in Int /\ \A a, b \in Int : a + b \in Int
  OBVIOUS
<1> QED
  BY <1>1, RunningExists

\* There is only one, and it is what Sum reads.
LEMMA SumOfRunning ==
  ASSUME NEW lo \in Nat \ {0}, NEW n \in Nat, NEW vals, NEW f, Running(f, vals, lo, n)
  PROVE  Sum(vals, lo, n) = f[n]
<1> DEFINE g == CHOOSE h : Running(h, vals, lo, n)
<1>1. Running(g, vals, lo, n)
  <2> HIDE DEF Running
  <2> QED
    OBVIOUS
<1>2. Sum(vals, lo, n) = g[n]
  BY DEF Sum, Running
<1> HIDE DEF g
<1> DEFINE Differ == {k \in 0..n : g[k] # f[k]}
<1>3. SUFFICES ASSUME Differ # {} PROVE FALSE
  BY <1>2
<1>4. PICK d \in Differ : \A k \in Differ : d <= k
  <2>1. Differ \in SUBSET Nat
    OBVIOUS
  <2> HIDE DEF Differ
  <2> QED
    BY <1>3, <2>1, LeastNumber
<1>5. /\ g[d] = IF d < lo THEN 0 ELSE g[d - 1] + vals[d]
      /\ f[d] = IF d < lo THEN 0 ELSE f[d - 1] + vals[d]
  BY <1>1, <1>4 DEF Running
<1>6. ~(d < lo) => d - 1 \in 0..n /\ ~(d <= d - 1)
  BY <1>4
<1>7. ~(d < lo) => g[d - 1] = f[d - 1]
  BY <1>4, <1>6
<1> QED
  BY <1>4, <1>5, <1>7

\* A sum is a number of its summands' kind; it goes on with the next summand.
LEMMA SumNext ==
  ASSUME NEW T \in SUBSET Int, 0 \in T, \A a, b \in T : a + b \in T,
         NEW lo \in Nat \ {0}, NEW n \in Nat, NEW vals, \A k \in 1..(n + 1) : vals[k] \in T
  PROVE  /\ Sum(vals, lo, n) \in T
         /\ Sum(vals, lo, n + 1) = IF n + 1 < lo THEN 0 ELSE Sum(vals, lo, n) + vals[n + 1]
<1>1. \A k \in 1..n : k \in 1..(n + 1)
  OBVIOUS
<1>2. PICK f \in [0..n -> T] : Running(f, vals, lo, n)
  BY <1>1, RunningExists
<1>3. n + 1 \in 1..(n + 1) /\ vals[n + 1] \in T
  OBVIOUS
<1>4. PICK g \in [0..(n + 1) -> T] :
        /\ Running(g, vals, lo, n + 1)
        /\ g[n + 1] = IF n + 1 < lo THEN 0 ELSE f[n] + vals[n + 1]
  BY <1>2, <1>3, RunningExtended
<1>5. Sum(vals, lo, n) = f[n]
  BY <1>2, SumOfRunning
<1>6. Sum(vals, lo, n + 1) = g[n + 1]
  <2>1. n + 1 \in Nat
    OBVIOUS
  <2> QED
    BY <1>4, <2>1, SumOfRunning
<1>7. f[n] \in T
  OBVIOUS
<1> QED
  BY <1>4, <1>5, <1>6, <1>7

LEMMA SumNextNumbers ==
  ASSUME NEW lo \in Nat \ {0}, NEW n \in Nat, NEW vals, \A k \in 1..(n + 1) : vals[k] \in Int
  PROVE  /\ Sum(vals, lo, n) \in Int
         /\ Sum(vals, lo, n + 1) = IF n + 1 < lo THEN 0 ELSE Sum(vals, lo, n) + vals[n + 1]
<1>1. Int \in SUBSET Int /\ 0 \in Int /\ \A a, b \in Int : a + b \in Int
  OBVIOUS
<1> QED
  BY <1>1, SumNext

LEMMA SumOfNothing ==
  ASSUME NEW vals, NEW lo \in Nat \ {0}
  PROVE  Sum(vals, lo, 0) = 0
<1> DEFINE f == [k \in 0..0 |-> 0]
<1>1. f[0] = 0 /\ f = [k \in 0..0 |-> IF k < lo THEN 0 ELSE f[k - 1] + vals[k]]
  OBVIOUS
<1>2. Running(f, vals, lo, 0)
  BY <1>1 DEF Running
<1> HIDE DEF f
<1> QED
  BY <1>1, <1>2, SumOfRunning

\* Only the values up to the end count.
LEMMA SumAgrees ==
  ASSUME NEW lo \in Nat \ {0}, NEW n \in Nat, NEW vals, NEW old,
         \A k \in 1..n : vals[k] \in Int /\ old[k] = vals[k]
  PROVE  Sum(old, lo, n) = Sum(vals, lo, n)
<1>1. PICK f \in [0..n -> Int] : Running(f, vals, lo, n)
  BY RunningNumbers
<1>2. Running(f, old, lo, n)
  <2>1. f = [k \in 0..n |-> IF k < lo THEN 0 ELSE f[k - 1] + vals[k]]
    BY <1>1 DEF Running
  <2>2. ASSUME NEW k \in 0..n
        PROVE  (IF k < lo THEN 0 ELSE f[k - 1] + vals[k])
                 = (IF k < lo THEN 0 ELSE f[k - 1] + old[k])
    <3>1. ~(k < lo) => k \in 1..n
      OBVIOUS
    <3> QED
      BY <3>1
  <2> QED
    BY <2>1, <2>2 DEF Running
<1> QED
  BY <1>1, <1>2, SumOfRunning

\* The first summand can be taken out.
LEMMA SumFirst ==
  ASSUME NEW lo \in Nat \ {0}, NEW n \in Nat, lo <= n, NEW vals,
         \A k \in 1..n : vals[k] \in Int
  PROVE  Sum(vals, lo, n) = vals[lo] + Sum(vals, lo + 1, n)
<1>1. PICK f \in [0..n -> Int] : Running(f, vals, lo, n)
  BY RunningNumbers
<1>2. lo + 1 \in Nat \ {0}
  OBVIOUS
<1>3. PICK g \in [0..n -> Int] : Running(g, vals, lo + 1, n)
  BY <1>2, RunningNumbers
<1> DEFINE Differ == {k \in lo..n : f[k] # vals[lo] + g[k]}
<1>4. Differ = {}
  <2>1. SUFFICES ASSUME Differ # {} PROVE FALSE
    OBVIOUS
  <2>2. PICK d \in Differ : \A k \in Differ : d <= k
    <3>1. Differ \in SUBSET Nat
      OBVIOUS
    <3> HIDE DEF Differ
    <3> QED
      BY <2>1, <3>1, LeastNumber
  <2>3. d \in 0..n /\ d - 1 \in 0..n /\ ~(d < lo) /\ vals[lo] \in Int /\ vals[d] \in Int
    BY <2>2
  <2>4. /\ f[d] = f[d - 1] + vals[d]
        /\ g[d] = IF d < lo + 1 THEN 0 ELSE g[d - 1] + vals[d]
    BY <1>1, <1>3, <2>3 DEF Running
  <2>5. CASE d = lo
    <3>1. f[d - 1] = 0
      BY <1>1, <2>3, <2>5 DEF Running
    <3>2. g[d] = 0
      BY <2>4, <2>5
    <3> QED
      BY <2>2, <2>3, <2>4, <2>5, <3>1, <3>2
  <2>6. CASE d # lo
    <3>1. d - 1 \in lo..n /\ ~(d <= d - 1) /\ ~(d < lo + 1)
      BY <2>2, <2>6
    <3>2. f[d - 1] = vals[lo] + g[d - 1]
      BY <2>2, <3>1
    <3>3. g[d] = g[d - 1] + vals[d] /\ g[d - 1] \in Int
      BY <2>3, <2>4, <3>1
    <3> DEFINE e == g[d - 1]
               a == vals[lo]
               b == vals[d]
    <3>4. f[d] = (a + e) + b /\ g[d] = e + b /\ e \in Int /\ a \in Int /\ b \in Int
      BY <2>3, <2>4, <3>2, <3>3
    <3>5. f[d] # a + g[d]
      BY <2>2
    <3> HIDE DEF a, b, e
    <3> QED
      BY <3>4, <3>5
  <2> QED
    BY <2>5, <2>6
<1>5. f[n] = vals[lo] + g[n]
  <2>1. n \in lo..n
    OBVIOUS
  <2> QED
    BY <1>4, <2>1
<1> QED
  BY <1>1, <1>2, <1>3, <1>5, SumOfRunning

-----------------------------------------------------------------------------
(* Windows.                                                                *)

\* The sum of the last p values of the first n.
LastSum(vals, p, n) == Sum(vals, Max({1, n - p + 1}), n)

LEMMA MaxOfTwo ==
  ASSUME NEW a \in Int, NEW b \in Int
  PROVE  Max({a, b}) = IF a >= b THEN a ELSE b
<1>1. \E m \in {a, b} : \A y \in {a, b} : m >= y
  OBVIOUS
<1>2. Max({a, b}) \in {a, b} /\ Max({a, b}) >= a /\ Max({a, b}) >= b
  BY <1>1 DEF Max
<1> QED
  BY <1>2

LEMMA WindowStart ==
  ASSUME NEW n \in Nat, NEW p \in Nat \ {0}
  PROVE  /\ Max({1, n - p + 1}) \in Nat \ {0}
         /\ Max({1, n - p + 1}) = IF n > p THEN n - p + 1 ELSE 1
<1>1. n - p + 1 \in Int
  OBVIOUS
<1>2. Max({1, n - p + 1}) = IF 1 >= n - p + 1 THEN 1 ELSE n - p + 1
  BY <1>1, MaxOfTwo
<1> QED
  BY <1>2

LEMMA LastSumTyped ==
  ASSUME NEW n \in Nat, NEW p \in Nat \ {0}, NEW vals, \A k \in 1..n : vals[k] \in Nat
  PROVE  LastSum(vals, p, n) \in Nat
<1> DEFINE lo == Max({1, n - p + 1})
<1>1. lo \in Nat \ {0}
  BY WindowStart
<1>2. Nat \in SUBSET Int /\ 0 \in Nat /\ \A a, b \in Nat : a + b \in Nat
  OBVIOUS
<1> HIDE DEF lo
<1>3. PICK f \in [0..n -> Nat] : Running(f, vals, lo, n)
  BY <1>1, <1>2, RunningExists
<1>4. Sum(vals, lo, n) = f[n] /\ f[n] \in Nat
  BY <1>1, <1>3, SumOfRunning
<1> QED
  BY <1>4 DEF LastSum, lo

\* A slid sum is the sum of the window slid.
LEMMA SlideStep ==
  ASSUME NEW n \in Nat, NEW p \in Nat \ {0}, NEW vals, NEW old,
         \A k \in 1..(n + 1) : vals[k] \in Nat, \A k \in 1..n : old[k] = vals[k]
  PROVE  Slide(LastSum(old, p, n), vals, n + 1, p) = LastSum(vals, p, n + 1)
<1> DEFINE i == n + 1
           from == Max({1, n - p + 1})
           to == Max({1, i - p + 1})
           sum == Sum(vals, from, n)
<1>1. /\ from \in Nat \ {0} /\ to \in Nat \ {0} /\ i \in Nat
      /\ from = IF n > p THEN n - p + 1 ELSE 1
      /\ to = IF i > p THEN i - p + 1 ELSE 1
  <2>1. i \in Nat
    OBVIOUS
  <2>2. from \in Nat \ {0} /\ from = IF n > p THEN n - p + 1 ELSE 1
    BY WindowStart
  <2> HIDE DEF from, i
  <2>3. to \in Nat \ {0} /\ to = IF i > p THEN i - p + 1 ELSE 1
    BY <2>1, WindowStart
  <2> QED
    BY <2>1, <2>2, <2>3
<1>3. /\ \A k \in 1..n : vals[k] \in Int /\ old[k] = vals[k]
      /\ \A k \in 1..(n + 1) : vals[k] \in Int
  OBVIOUS
<1> HIDE DEF from, to
<1>4. Sum(old, from, n) = sum
  BY <1>1, <1>3, SumAgrees
<1>5. /\ sum \in Int
      /\ Sum(vals, to, n) \in Int
      /\ Sum(vals, to, n + 1) = IF n + 1 < to THEN 0 ELSE Sum(vals, to, n) + vals[n + 1]
  BY <1>1, <1>3, SumNextNumbers
<1>6. ~(n + 1 < to) /\ vals[i] \in Int
  BY <1>1, <1>3
<1>7. LastSum(vals, p, i) = Sum(vals, to, n) + vals[i]
  BY <1>5, <1>6 DEF LastSum, to
<1>8. Slide(sum, vals, i, p) = (sum + vals[i]) - (IF i > p THEN vals[i - p] ELSE 0)
  <2> DEFINE s == sum
             v == vals[i]
             out == IF i > p THEN vals[i - p] ELSE 0
  <2>1. s \in Int /\ v \in Int /\ Slide(sum, vals, i, p) = s + (v - out)
    BY <1>5, <1>6 DEF Slide
  <2>2. out \in Int
    <3>1. i > p => i - p \in 1..n
      OBVIOUS
    <3> QED
      BY <1>3, <3>1
  <2>3. Slide(sum, vals, i, p) = (s + v) - out
    <3> HIDE DEF s, v, out
    <3> QED
      BY <2>1, <2>2
  <2> QED
    BY <2>3
<1>9. LastSum(old, p, n) = sum
  BY <1>4 DEF LastSum, from
<1>10. CASE i > p
  <2>1. from = i - p /\ to = from + 1 /\ from \in 1..n /\ from <= n
    BY <1>1, <1>10
  <2>2. sum = vals[from] + Sum(vals, from + 1, n)
    BY <1>1, <1>3, <2>1, SumFirst
  <2> DEFINE a == vals[from]
             b == vals[i]
             r == Sum(vals, to, n)
  <2>3. sum = a + r /\ a \in Int /\ b \in Int /\ r \in Int
    BY <1>3, <1>5, <1>6, <2>1, <2>2
  <2>4. Slide(sum, vals, i, p) = (sum + b) - a
    BY <1>8, <1>10, <2>1
  <2>5. LastSum(vals, p, i) = r + b
    BY <1>7
  <2> HIDE DEF a, b, r, sum
  <2>6. (sum + b) - a = r + b
    BY <2>3
  <2> QED
    BY <1>9, <2>4, <2>5, <2>6
<1>11. CASE ~(i > p)
  <2>1. from = to
    BY <1>1, <1>11
  <2>2. Slide(sum, vals, i, p) = (sum + vals[i]) - 0
    BY <1>8, <1>11
  <2>3. (sum + vals[i]) - 0 = sum + vals[i]
    <3> HIDE DEF sum
    <3> QED
      BY <1>5, <1>6
  <2> QED
    BY <1>7, <1>9, <2>1, <2>2, <2>3
<1> QED
  BY <1>10, <1>11

\* Among numbered numbers there is a greatest, which Max is.
LEMMA MaxOfNumbered ==
  ASSUME NEW a \in Int, NEW b \in Int, a <= b, NEW f, \A j \in a..b : f[j] \in Int
  PROVE  /\ Max({f[j] : j \in a..b}) \in {f[j] : j \in a..b}
         /\ \A j \in a..b : Max({f[k] : k \in a..b}) >= f[j]
<1> DEFINE Greatest(n) == \E j \in a..(a + n) : \A k \in a..(a + n) : f[j] >= f[k]
           Without == {n \in 0..(b - a) : ~Greatest(n)}
<1>1. Without = {}
  <2>1. SUFFICES ASSUME Without # {} PROVE FALSE
    OBVIOUS
  <2>2. PICK n \in Without : \A m \in Without : n <= m
    <3>1. Without \in SUBSET Nat
      OBVIOUS
    <3> HIDE DEF Without
    <3> QED
      BY <2>1, <3>1, LeastNumber
  <2>3. CASE n = 0
    <3>1. a + n = a /\ a..a = {a} /\ a \in a..b
      BY <2>3
    <3> QED
      BY <2>2, <2>3, <3>1
  <2>4. CASE n # 0
    <3>1. n - 1 \in 0..(b - a) /\ ~(n <= n - 1) /\ (a + n) - 1 = a + (n - 1) /\ a + n \in a..b
      BY <2>2, <2>4
    <3>2. PICK j \in a..(a + (n - 1)) : \A k \in a..(a + (n - 1)) : f[j] >= f[k]
      BY <2>2, <3>1
    <3>3. /\ j \in a..(a + n) /\ j \in a..b /\ a + n \in a..(a + n)
          /\ \A k \in a..(a + n) : (k \in a..(a + (n - 1)) \/ k = a + n) /\ k \in a..b
      BY <2>2, <3>1
    <3>4. CASE f[j] >= f[a + n]
      BY <2>2, <3>2, <3>3, <3>4
    <3>5. CASE ~(f[j] >= f[a + n])
      <4>1. f[j] \in Int /\ f[a + n] \in Int
        BY <3>1, <3>3
      <4>2. \A k \in a..(a + n) : f[a + n] >= f[k]
        <5>1. ASSUME NEW k \in a..(a + n) PROVE f[a + n] >= f[k]
          <6>1. f[k] \in Int /\ (k = a + n \/ f[j] >= f[k])
            BY <3>2, <3>3
          <6> QED
            BY <3>5, <4>1, <6>1
        <5> QED
          BY <5>1
      <4> QED
        BY <2>2, <3>3, <4>2
    <3> QED
      BY <3>4, <3>5
  <2> QED
    BY <2>3, <2>4
<1>2. b - a \in 0..(b - a) /\ a + (b - a) = b
  OBVIOUS
<1>3. \E j \in a..b : \A k \in a..b : f[j] >= f[k]
  BY <1>1, <1>2
<1>4. \E m \in {f[j] : j \in a..b} : \A y \in {f[j] : j \in a..b} : m >= y
  BY <1>3
<1> QED
  BY <1>4 DEF Max
-----------------------------------------------------------------------------
(* The invariant, of any candles cs, entries xs and signals sg.            *)

Entry == [short : Nat, long : Nat, tpv : Nat, vol : Nat, gain : Nat, loss : Nat, atr : Nat,
          upper : Int, lower : Int, st : Int, dir : {1, -1}, inBreakout : BOOLEAN]
Signal == [at : Nat, side : {"BUY", "SELL"}]

\* The running values after the entries xs.
Carried(xs) == IF xs = <<>> THEN Empty ELSE Last(xs)

Typed(cs, xs, sg) ==
  /\ cs \in Seq(Bars)
  /\ xs \in Seq(Entry)
  /\ Len(xs) = Len(cs)
  /\ sg \in [Evaluators -> Seq(Signal)]
  /\ \A e \in Evaluators : \A k \in DOMAIN sg[e] : sg[e][k].at \in 1..Len(cs)

\* Every sum carried along is the sum of its window.
SumsAre(cs, x) ==
  /\ x.short = LastSum(Closes(cs), ShortMA, Len(cs))
  /\ x.long = LastSum(Closes(cs), LongMA, Len(cs))
  /\ x.tpv = LastSum(TPVs(cs), VWAPPeriod, Len(cs))
  /\ x.vol = LastSum(Volumes(cs), VWAPPeriod, Len(cs))

\* Out of the crossed bands, a close is on the direction's side of the line.
Beyond(c, y) == y.upper < c.close /\ c.close < y.lower
OnItsSide(c, y) ==
  /\ y.st = IF y.dir = 1 THEN y.lower ELSE y.upper
  /\ ~Beyond(c, y) => IF y.dir = 1 THEN c.close >= y.lower ELSE c.close <= y.upper
Ratchet(c, x, y) ==
  x.dir = y.dir /\ ~Beyond(c, x) => IF x.dir = 1 THEN y.st >= x.st ELSE y.st <= x.st
LinesAre(cs, xs) ==
  /\ \A k \in (SupertrendPer + 1)..Len(cs) : OnItsSide(cs[k], xs[k])
  /\ \A k \in (SupertrendPer + 1)..(Len(cs) - 1) : Ratchet(cs[k], xs[k], xs[k + 1])

\* The last signal of s is a BUY when up holds, a SELL when it does not.
Tells(s, up) == s # <<>> => (Last(s).side = "BUY" <=> up)

MovingAveragesAre(cs, x, s) ==
  /\ s # <<>> => Len(cs) > LongMA
  /\ Tells(s, ShortAbove(x)) /\ Alternates(s)
SupertrendIs(cs, x, s) ==
  /\ s # <<>> => Len(cs) > SupertrendPer
  /\ Tells(s, x.dir = 1) /\ Alternates(s)
MomentumIs(cs, x, s) ==
  /\ x.inBreakout <=> Breakout(cs, Len(cs))
  /\ s = <<>> => ~x.inBreakout
  /\ s # <<>> => Len(cs) > Lookback /\ Head(s).side = "BUY"
  /\ Tells(s, x.inBreakout) /\ Alternates(s)
VWAPIs(cs, xs, s) ==
  /\ s # <<>> => Len(cs) > VWAPPeriod
  /\ (\A j \in VWAPPeriod..Len(cs) : xs[j].vol > 0) =>
       Tells(s, CloseAbove(Last(cs), Carried(xs)))

\* An RSI signal enters its zone: the entry before is out of it.
Outside(x, side) == IF side = "BUY" THEN ~Under(Rsi(x), Oversold) ELSE ~Over(Rsi(x), Overbought)
RSIIs(xs, s) ==
  /\ \A k \in DOMAIN s : s[k].at > 1 /\ Outside(xs[s[k].at - 1], s[k].side)
  /\ \A k \in 1..(Len(s) - 1) : s[k].at < s[k + 1].at

IndInv ==
  /\ Typed(candles, ind, signals)
  /\ SumsAre(candles, Carried(ind))
  /\ LinesAre(candles, ind)
  /\ MovingAveragesAre(candles, Carried(ind), signals["ma_crossover"])
  /\ SupertrendIs(candles, Carried(ind), signals["supertrend"])
  /\ MomentumIs(candles, Carried(ind), signals["momentum"])
  /\ VWAPIs(candles, ind, signals["vwap_crossover"])
  /\ RSIIs(ind, signals["rsi_oversold"])

-----------------------------------------------------------------------------
(* The values of one candle.                                               *)

LEMMA Periods ==
  /\ ShortMA \in Nat \ {0} /\ LongMA \in Nat \ {0} /\ VWAPPeriod \in Nat \ {0}
  /\ Lookback \in Nat \ {0} /\ SupertrendPer \in Nat \ {0} /\ RSIPeriod \in Nat \ {0}
  /\ SupertrendMult \in Nat \ {0}
BY IndicatorsAssumption

LEMMA BarTyped ==
  ASSUME NEW c \in Bars
  PROVE  /\ c.high \in Nat /\ c.low \in Nat /\ c.close \in Nat /\ c.volume \in Nat
         /\ c.low <= c.close /\ c.close <= c.high
BY IndicatorsAssumption

LEMMA QuotientTyped ==
  ASSUME NEW a \in Nat, NEW p \in Nat \ {0}
  PROVE  a \div p \in Nat
OBVIOUS

LEMMA ProductTyped ==
  ASSUME NEW a \in Nat, NEW b \in Nat
  PROVE  a * b \in Nat
OBVIOUS

LEMMA WilderTyped ==
  ASSUME NEW avg \in Nat, NEW x \in Nat, NEW k \in Nat, NEW p \in Nat \ {0}
  PROVE  Wilder(avg, x, k, p) \in Nat
<1> DEFINE kept == avg * (p - 1)
<1>1. kept \in Nat
  <2>1. p - 1 \in Nat
    OBVIOUS
  <2> QED
    BY <2>1, ProductTyped
<1>2. avg + x \in Nat /\ kept + x \in Nat
  BY <1>1
<1>3. (avg + x) \div p \in Nat /\ (kept + x) \div p \in Nat
  BY <1>2, QuotientTyped
<1>4. k < p \/ k = p \/ k > p
  OBVIOUS
<1>5. CASE k < p
  BY <1>2, <1>5 DEF Wilder
<1>6. CASE k = p
  BY <1>3, <1>6 DEF Wilder
<1>7. CASE k > p
  <2>1. ~(k < p) /\ ~(k = p)
    BY <1>7
  <2> QED
    BY <1>3, <1>7, <2>1 DEF Wilder
<1> QED
  BY <1>4, <1>5, <1>6, <1>7

LEMMA TrueRangeTyped ==
  ASSUME NEW cs \in Seq(Bars), NEW i \in 1..Len(cs)
  PROVE  TrueRange(cs, i) \in Nat
<1>1. cs[i] \in Bars /\ (i # 1 => cs[i - 1] \in Bars)
  <2>1. i # 1 => i - 1 \in 1..Len(cs)
    OBVIOUS
  <2> QED
    BY <2>1, ElementOfSeq
<1> DEFINE a == cs[i].high - cs[i].low
           b == Abs(cs[i].high - cs[i - 1].close)
           d == Abs(cs[i].low - cs[i - 1].close)
<1>2. a \in Nat
  BY <1>1, BarTyped
<1>3. CASE i = 1
  BY <1>2, <1>3 DEF TrueRange
<1>4. CASE i # 1
  <2>1. b \in Nat /\ d \in Nat
    <3>1. cs[i].high \in Nat /\ cs[i].low \in Nat /\ cs[i - 1].close \in Nat
      BY <1>1, <1>4, BarTyped
    <3>2. ASSUME NEW m \in Int PROVE Abs(m) \in Nat
      BY DEF Abs
    <3>3. cs[i].high - cs[i - 1].close \in Int /\ cs[i].low - cs[i - 1].close \in Int
      BY <3>1
    <3> QED
      BY <3>2, <3>3
  <2>2. TrueRange(cs, i) = Max({a, b, d})
    BY <1>4 DEF TrueRange
  <2> HIDE DEF a, b, d
  <2>3. \E m \in {a, b, d} : \A y \in {a, b, d} : m >= y
    BY <1>2, <2>1
  <2>4. Max({a, b, d}) \in {a, b, d}
    BY <2>3 DEF Max
  <2> QED
    BY <1>2, <2>1, <2>2, <2>4
<1> QED
  BY <1>3, <1>4

LEMMA GainTyped ==
  ASSUME NEW cs \in Seq(Bars), NEW i \in 2..Len(cs)
  PROVE  Gain(cs, i) \in Nat /\ Loss(cs, i) \in Nat
<1>1. cs[i] \in Bars /\ cs[i - 1] \in Bars
  BY ElementOfSeq
<1> DEFINE a == cs[i].close
           b == cs[i - 1].close
<1>2. a \in Nat /\ b \in Nat
  BY <1>1, BarTyped
<1>3. Gain(cs, i) = Max({0, a - b}) /\ Loss(cs, i) = Max({0, b - a})
  BY DEF Gain, Loss
<1> HIDE DEF a, b
<1>4. a - b \in Int /\ b - a \in Int
  BY <1>2
<1>5. Max({0, a - b}) = (IF 0 >= a - b THEN 0 ELSE a - b) /\ Max({0, b - a}) = (IF 0 >= b - a THEN 0 ELSE b - a)
  BY <1>4, MaxOfTwo
<1> QED
  BY <1>2, <1>3, <1>5

\* The numbers that are summed.
LEMMA SummandsTyped ==
  ASSUME NEW cs \in Seq(Bars), NEW k \in 1..Len(cs)
  PROVE  Closes(cs)[k] \in Nat /\ Volumes(cs)[k] \in Nat /\ TPVs(cs)[k] \in Nat
<1>1. cs[k] \in Bars /\ k \in DOMAIN cs
  BY ElementOfSeq
<1> DEFINE tp == cs[k].high + cs[k].low + cs[k].close
<1>2. tp \in Nat /\ cs[k].volume \in Nat /\ cs[k].close \in Nat
  BY <1>1, BarTyped
<1>3. /\ Closes(cs)[k] = cs[k].close /\ Volumes(cs)[k] = cs[k].volume
      /\ TPVs(cs)[k] = tp * cs[k].volume
  BY <1>1 DEF Closes, Volumes, TPVs
<1> HIDE DEF tp
<1> QED
  BY <1>2, <1>3, ProductTyped

LEMMA SummandsKept ==
  ASSUME NEW cs \in Seq(Bars), NEW c \in Bars, NEW k \in 1..Len(cs)
  PROVE  /\ Closes(cs)[k] = Closes(Append(cs, c))[k]
         /\ Volumes(cs)[k] = Volumes(Append(cs, c))[k]
         /\ TPVs(cs)[k] = TPVs(Append(cs, c))[k]
<1>1. /\ k \in DOMAIN cs /\ k \in DOMAIN Append(cs, c) /\ Append(cs, c)[k] = cs[k]
  OBVIOUS
<1> QED
  BY <1>1 DEF Closes, Volumes, TPVs

-----------------------------------------------------------------------------
(* The entry of the next candle.                                           *)

LEMMA SlidSums ==
  ASSUME NEW cs \in Seq(Bars), NEW c \in Bars, NEW x, SumsAre(cs, x)
  PROVE  /\ SumsAre(Append(cs, c), Reading(x, Append(cs, c)))
         /\ LET y == Reading(x, Append(cs, c))
            IN  y.short \in Nat /\ y.long \in Nat /\ y.tpv \in Nat /\ y.vol \in Nat
<1> DEFINE n == Len(cs)
           ds == Append(cs, c)
           y == Reading(x, ds)
<1>1. ds \in Seq(Bars) /\ Len(ds) = n + 1 /\ n \in Nat
  OBVIOUS
<1> HIDE DEF ds
<1>2. /\ y.short = Slide(x.short, Closes(ds), n + 1, ShortMA)
      /\ y.long = Slide(x.long, Closes(ds), n + 1, LongMA)
      /\ y.tpv = Slide(x.tpv, TPVs(ds), n + 1, VWAPPeriod)
      /\ y.vol = Slide(x.vol, Volumes(ds), n + 1, VWAPPeriod)
  BY <1>1 DEF Reading
<1>3. \A k \in 1..(n + 1) : Closes(ds)[k] \in Nat /\ Volumes(ds)[k] \in Nat /\ TPVs(ds)[k] \in Nat
  BY <1>1, SummandsTyped
<1>4. \A k \in 1..n : /\ Closes(cs)[k] = Closes(ds)[k]
                      /\ Volumes(cs)[k] = Volumes(ds)[k]
                      /\ TPVs(cs)[k] = TPVs(ds)[k]
  BY SummandsKept DEF ds
<1> HIDE DEF y, n
<1>5. /\ y.short = LastSum(Closes(ds), ShortMA, n + 1)
      /\ y.long = LastSum(Closes(ds), LongMA, n + 1)
  <2>1. Slide(LastSum(Closes(cs), ShortMA, n), Closes(ds), n + 1, ShortMA) = LastSum(Closes(ds), ShortMA, n + 1)
    <3>1. /\ \A k \in 1..(n + 1) : Closes(ds)[k] \in Nat
          /\ \A k \in 1..n : Closes(cs)[k] = Closes(ds)[k]
      BY <1>3, <1>4
    <3> QED
      BY <1>1, <3>1, Periods, SlideStep
  <2>2. Slide(LastSum(Closes(cs), LongMA, n), Closes(ds), n + 1, LongMA) = LastSum(Closes(ds), LongMA, n + 1)
    <3>1. /\ \A k \in 1..(n + 1) : Closes(ds)[k] \in Nat
          /\ \A k \in 1..n : Closes(cs)[k] = Closes(ds)[k]
      BY <1>3, <1>4
    <3> QED
      BY <1>1, <3>1, Periods, SlideStep
  <2> QED
    BY <1>2, <2>1, <2>2 DEF SumsAre, n
<1>6. /\ y.tpv = LastSum(TPVs(ds), VWAPPeriod, n + 1)
      /\ y.vol = LastSum(Volumes(ds), VWAPPeriod, n + 1)
  <2>1. Slide(LastSum(TPVs(cs), VWAPPeriod, n), TPVs(ds), n + 1, VWAPPeriod) = LastSum(TPVs(ds), VWAPPeriod, n + 1)
    <3>1. /\ \A k \in 1..(n + 1) : TPVs(ds)[k] \in Nat
          /\ \A k \in 1..n : TPVs(cs)[k] = TPVs(ds)[k]
      BY <1>3, <1>4
    <3> QED
      BY <1>1, <3>1, Periods, SlideStep
  <2>2. Slide(LastSum(Volumes(cs), VWAPPeriod, n), Volumes(ds), n + 1, VWAPPeriod) = LastSum(Volumes(ds), VWAPPeriod, n + 1)
    <3>1. /\ \A k \in 1..(n + 1) : Volumes(ds)[k] \in Nat
          /\ \A k \in 1..n : Volumes(cs)[k] = Volumes(ds)[k]
      BY <1>3, <1>4
    <3> QED
      BY <1>1, <3>1, Periods, SlideStep
  <2> QED
    BY <1>2, <2>1, <2>2 DEF SumsAre, n
<1>7. SumsAre(ds, y)
  BY <1>1, <1>5, <1>6 DEF SumsAre
<1>8. y.short \in Nat /\ y.long \in Nat /\ y.tpv \in Nat /\ y.vol \in Nat
  <2>1. n + 1 \in Nat
    BY <1>1
  <2> QED
    BY <1>3, <1>5, <1>6, <2>1, Periods, LastSumTyped
<1> QED
  BY <1>7, <1>8 DEF ds, y

LEMMA SupertrendTyped ==
  ASSUME NEW x \in Entry, NEW cs \in Seq(Bars), NEW i \in 1..Len(cs), NEW atr \in Nat
  PROVE  LET s == Supertrend(x, cs, i, atr)
         IN  s.upper \in Int /\ s.lower \in Int /\ s.st \in Int /\ s.dir \in {1, -1}
<1> DEFINE s == Supertrend(x, cs, i, atr)
           mid == (cs[i].high + cs[i].low) \div 2
           wide == SupertrendMult * atr
           upper == IF i = SupertrendPer THEN mid + wide
                    ELSE UpperBand(mid + wide, x.upper, cs[i - 1].close)
           lower == IF i = SupertrendPer THEN mid - wide
                    ELSE LowerBand(mid - wide, x.lower, cs[i - 1].close)
           dir == IF i = SupertrendPer THEN SeedDirection(cs[i].close, upper)
                  ELSE Direction(x.dir, cs[i].close, upper, lower)
<1>1. mid \in Nat /\ wide \in Nat
  <2>1. cs[i] \in Bars
    BY ElementOfSeq
  <2>2. cs[i].high + cs[i].low \in Nat /\ 2 \in Nat \ {0}
    BY <2>1, BarTyped
  <2> QED
    BY <2>2, Periods, QuotientTyped, ProductTyped
<1>2. s = IF i < SupertrendPer
          THEN [upper |-> 0, lower |-> 0, st |-> 0, dir |-> 1]
          ELSE [upper |-> upper, lower |-> lower, dir |-> dir,
                st |-> IF dir = 1 THEN lower ELSE upper]
  BY DEF Supertrend
<1>3. x.upper \in Int /\ x.lower \in Int
  BY DEF Entry
<1> HIDE DEF mid, wide, s
<1>4. upper \in Int /\ lower \in Int
  BY <1>1, <1>3 DEF UpperBand, LowerBand
<1>5. dir \in {1, -1}
  <2> HIDE DEF upper, lower
  <2> QED
    BY DEF SeedDirection, Direction
<1> HIDE DEF upper, lower, dir
<1> QED
  BY <1>2, <1>4, <1>5 DEF s

LEMMA ReadingTyped ==
  ASSUME NEW cs \in Seq(Bars), NEW c \in Bars, NEW x \in Entry, SumsAre(cs, x)
  PROVE  Reading(x, Append(cs, c)) \in Entry
<1> DEFINE ds == Append(cs, c)
           i == Len(ds)
           atr == Wilder(x.atr, TrueRange(ds, i), i, SupertrendPer)
           s == Supertrend(x, ds, i, atr)
           gain == IF i = 1 THEN 0 ELSE Wilder(x.gain, Gain(ds, i), i - 1, RSIPeriod)
           loss == IF i = 1 THEN 0 ELSE Wilder(x.loss, Loss(ds, i), i - 1, RSIPeriod)
           flag == ~FellBack(ds, i) /\ (Breakout(ds, i) \/ x.inBreakout)
           y == Reading(x, ds)
<1>1. ds \in Seq(Bars) /\ i \in 1..Len(ds) /\ i \in Nat
  OBVIOUS
<1>2. y.short \in Nat /\ y.long \in Nat /\ y.tpv \in Nat /\ y.vol \in Nat
  BY SlidSums
<1>3. x.atr \in Nat /\ x.gain \in Nat /\ x.loss \in Nat
  BY DEF Entry
<1> HIDE DEF ds, i
<1>4. atr \in Nat
  BY <1>1, <1>3, Periods, TrueRangeTyped, WilderTyped
<1>5. gain \in Nat /\ loss \in Nat
  <2>1. CASE i = 1
    BY <2>1
  <2>2. CASE i # 1
    <3>1. i \in 2..Len(ds) /\ i - 1 \in Nat
      BY <1>1, <2>2
    <3>2. Gain(ds, i) \in Nat /\ Loss(ds, i) \in Nat
      BY <1>1, <3>1, GainTyped
    <3> QED
      BY <1>3, <2>2, <3>1, <3>2, Periods, WilderTyped
  <2> QED
    BY <2>1, <2>2
<1>6. s.upper \in Int /\ s.lower \in Int /\ s.st \in Int /\ s.dir \in {1, -1}
  <2> HIDE DEF atr
  <2> QED
    BY <1>1, <1>4, SupertrendTyped
<1>7. flag \in BOOLEAN
  OBVIOUS
<1>8. y = [short |-> Slide(x.short, Closes(ds), i, ShortMA),
           long |-> Slide(x.long, Closes(ds), i, LongMA),
           tpv |-> Slide(x.tpv, TPVs(ds), i, VWAPPeriod),
           vol |-> Slide(x.vol, Volumes(ds), i, VWAPPeriod),
           gain |-> gain, loss |-> loss,
           atr |-> atr, upper |-> s.upper, lower |-> s.lower, st |-> s.st, dir |-> s.dir,
           inBreakout |-> flag]
  BY DEF Reading, i
<1> DEFINE a1 == Slide(x.short, Closes(ds), i, ShortMA)
           a2 == Slide(x.long, Closes(ds), i, LongMA)
           a3 == Slide(x.tpv, TPVs(ds), i, VWAPPeriod)
           a4 == Slide(x.vol, Volumes(ds), i, VWAPPeriod)
<1> HIDE DEF gain, loss, atr, s, flag, a1, a2, a3, a4
<1>9. y = [short |-> a1, long |-> a2, tpv |-> a3, vol |-> a4, gain |-> gain, loss |-> loss,
           atr |-> atr, upper |-> s.upper, lower |-> s.lower, st |-> s.st, dir |-> s.dir,
           inBreakout |-> flag]
  BY <1>8 DEF a1, a2, a3, a4
<1> HIDE DEF y
<1>10. a1 \in Nat /\ a2 \in Nat /\ a3 \in Nat /\ a4 \in Nat
  BY <1>2, <1>9
<1>11. y \in Entry
  BY <1>4, <1>5, <1>6, <1>7, <1>9, <1>10 DEF Entry
<1> QED
  BY <1>11 DEF y, ds

-----------------------------------------------------------------------------
(* The Supertrend line.                                                    *)

\* The candles after the first of the line.
LEMMA NextLine ==
  ASSUME NEW cs \in Seq(Bars), NEW c \in Bars, NEW x \in Entry, SumsAre(cs, x),
         Len(cs) + 1 > SupertrendPer
  PROVE  LET y == Reading(x, Append(cs, c))
             last == cs[Len(cs)]
         IN  /\ OnItsSide(c, y)
             /\ OnItsSide(last, x) => Ratchet(last, x, y)
<1> DEFINE ds == Append(cs, c)
           i == Len(ds)
           y == Reading(x, ds)
           last == cs[Len(cs)]
           atr == Wilder(x.atr, TrueRange(ds, i), i, SupertrendPer)
           s == Supertrend(x, ds, i, atr)
           up == ((c.high + c.low) \div 2) + SupertrendMult * atr
           low == ((c.high + c.low) \div 2) - SupertrendMult * atr
<1>1. /\ Len(cs) \in Nat /\ i = Len(cs) + 1 /\ i \in Nat /\ ds[i] = c
      /\ Len(cs) \in 1..Len(cs) /\ i - 1 = Len(cs)
      /\ ds[i - 1] = last /\ last \in Bars
  <2>1. Len(cs) \in Nat /\ i = Len(cs) + 1 /\ i \in Nat /\ ds[i] = c /\ i - 1 = Len(cs)
    OBVIOUS
  <2>2. Len(cs) \in 1..Len(cs)
    BY Periods
  <2> QED
    BY <2>1, <2>2, ElementOfSeq
<1>2. ~(i < SupertrendPer) /\ ~(i = SupertrendPer)
  BY <1>1, Periods
<1>3. /\ y.upper = s.upper /\ y.lower = s.lower /\ y.st = s.st /\ y.dir = s.dir
  BY DEF Reading
<1>4. y \in Entry
  BY ReadingTyped
<1>5. c.close \in Nat /\ last.close \in Nat
  BY <1>1, BarTyped
<1> HIDE DEF ds, i, last, atr, y
<1>6. /\ s.upper = UpperBand(up, x.upper, last.close)
      /\ s.lower = LowerBand(low, x.lower, last.close)
      /\ s.dir = Direction(x.dir, c.close, s.upper, s.lower)
      /\ s.st = IF s.dir = 1 THEN s.lower ELSE s.upper
  BY <1>1, <1>2 DEF Supertrend
<1> HIDE DEF s, up, low
<1>7. /\ y.upper = UpperBand(up, x.upper, last.close)
      /\ y.lower = LowerBand(low, x.lower, last.close)
      /\ y.dir = Direction(x.dir, c.close, y.upper, y.lower)
      /\ y.st = IF y.dir = 1 THEN y.lower ELSE y.upper
  BY <1>3, <1>6
<1>8. /\ y.upper \in Int /\ y.lower \in Int /\ y.dir \in {1, -1} /\ y.st \in Int
      /\ x.upper \in Int /\ x.lower \in Int /\ x.dir \in {1, -1} /\ x.st \in Int
  BY <1>4 DEF Entry
<1>9. OnItsSide(c, y)
  <2>1. CASE y.dir = 1
    <3>1. x.dir = 1 => ~(c.close < y.lower)
      BY <1>7, <2>1 DEF Direction
    <3>2. x.dir # 1 => c.close > y.upper
      BY <1>7, <2>1 DEF Direction
    <3> QED
      BY <1>5, <1>7, <1>8, <2>1, <3>1, <3>2 DEF OnItsSide, Beyond
  <2>2. CASE y.dir # 1
    <3>1. x.dir = 1 => c.close < y.lower
      BY <1>7, <2>2 DEF Direction
    <3>2. x.dir # 1 => ~(c.close > y.upper)
      BY <1>7, <2>2 DEF Direction
    <3> QED
      BY <1>5, <1>7, <1>8, <2>2, <3>1, <3>2 DEF OnItsSide, Beyond
  <2> QED
    BY <2>1, <2>2
<1>10. ASSUME OnItsSide(last, x) PROVE Ratchet(last, x, y)
  <2>1. SUFFICES ASSUME x.dir = y.dir, ~Beyond(last, x)
                 PROVE  IF x.dir = 1 THEN y.st >= x.st ELSE y.st <= x.st
    BY DEF Ratchet
  <2>2. CASE x.dir = 1
    <3>1. y.st = y.lower /\ x.st = x.lower /\ last.close >= x.lower
      BY <1>7, <1>10, <2>1, <2>2 DEF OnItsSide
    <3>2. y.lower >= x.lower
      <4>1. CASE y.lower = x.lower
        BY <1>8, <4>1
      <4>2. CASE y.lower # x.lower
        <5>1. y.lower = low /\ (low > x.lower \/ last.close < x.lower)
          BY <1>7, <4>2 DEF LowerBand
        <5> QED
          BY <1>5, <1>8, <3>1, <5>1
      <4> QED
        BY <4>1, <4>2
    <3> QED
      BY <2>2, <3>1, <3>2
  <2>3. CASE x.dir # 1
    <3>1. y.st = y.upper /\ x.st = x.upper /\ last.close <= x.upper
      BY <1>7, <1>10, <2>1, <2>3 DEF OnItsSide
    <3>2. y.upper <= x.upper
      <4>1. CASE y.upper = x.upper
        BY <1>8, <4>1
      <4>2. CASE y.upper # x.upper
        <5>1. y.upper = up /\ (up < x.upper \/ last.close > x.upper)
          BY <1>7, <4>2 DEF UpperBand
        <5> QED
          BY <1>5, <1>8, <3>1, <5>1
      <4> QED
        BY <4>1, <4>2
    <3> QED
      BY <2>3, <3>1, <3>2
  <2> QED
    BY <2>2, <2>3
<1> QED
  BY <1>9, <1>10 DEF y, ds, last

LEMMA LinesKept ==
  ASSUME NEW cs \in Seq(Bars), NEW xs \in Seq(Entry), Len(xs) = Len(cs),
         LinesAre(cs, xs), NEW c \in Bars, SumsAre(cs, Carried(xs))
  PROVE  LinesAre(Append(cs, c), Append(xs, Reading(Carried(xs), Append(cs, c))))
<1> DEFINE n == Len(cs)
           x == Carried(xs)
           ds == Append(cs, c)
           y == Reading(x, ds)
           ys == Append(xs, y)
<1>1. n \in Nat /\ Len(ds) = n + 1 /\ ds[n + 1] = c
  OBVIOUS
<1>2. \A k \in 1..n : ds[k] = cs[k] /\ ys[k] = xs[k]
  OBVIOUS
<1>3. ys[n + 1] = y
  OBVIOUS
<1>4. n > 0 => x = xs[n] /\ x \in Entry /\ n \in 1..n
  <2>1. n > 0 => xs # <<>> /\ n \in 1..n
    OBVIOUS
  <2> QED
    BY <2>1, ElementOfSeq DEF Carried, Last
<1>5. n + 1 > SupertrendPer => n > 0
  BY <1>1, Periods
<1>6. n + 1 > SupertrendPer => /\ OnItsSide(c, y)
                               /\ OnItsSide(cs[n], x) => Ratchet(cs[n], x, y)
  BY <1>4, <1>5, NextLine
<1> HIDE DEF n, x, ds, y, ys
<1>7. ASSUME NEW k \in (SupertrendPer + 1)..(n + 1) PROVE OnItsSide(ds[k], ys[k])
  <2>1. CASE k = n + 1
    <3>1. n + 1 > SupertrendPer
      BY <1>1, <2>1, Periods
    <3> QED
      BY <1>1, <1>3, <1>6, <2>1, <3>1
  <2>2. CASE k # n + 1
    <3>1. k \in (SupertrendPer + 1)..n /\ k \in 1..n
      BY <1>1, <2>2, Periods
    <3> QED
      BY <1>2, <3>1 DEF LinesAre, n
  <2> QED
    BY <2>1, <2>2
<1>8. ASSUME NEW k \in (SupertrendPer + 1)..((n + 1) - 1) PROVE Ratchet(ds[k], ys[k], ys[k + 1])
  <2>1. k \in (SupertrendPer + 1)..n /\ k \in 1..n
    BY <1>1, Periods
  <2>2. OnItsSide(cs[k], xs[k])
    BY <2>1 DEF LinesAre, n
  <2>3. CASE k = n
    <3>1. n + 1 > SupertrendPer /\ n > 0
      BY <1>1, <2>1, <2>3, Periods
    <3>2. Ratchet(cs[n], x, y)
      BY <1>4, <1>6, <2>2, <2>3, <3>1
    <3> QED
      BY <1>2, <1>3, <1>4, <2>1, <2>3, <3>1, <3>2
  <2>4. CASE k # n
    <3>1. k \in (SupertrendPer + 1)..(n - 1) /\ k + 1 \in 1..n
      BY <1>1, <2>1, <2>4
    <3> QED
      BY <1>2, <2>1, <3>1 DEF LinesAre, n
  <2> QED
    BY <2>3, <2>4
<1>9. LinesAre(ds, ys)
  BY <1>1, <1>7, <1>8 DEF LinesAre
<1> QED
  BY <1>9 DEF ds, ys, y, x

-----------------------------------------------------------------------------
(* The signals of one candle.                                              *)

Order(i, side) == [at |-> i, side |-> side]

LEMMA EmittedCases ==
  ASSUME NEW e, NEW x, NEW y, NEW cs
  PROVE  \/ Buys(e, x, y, cs) /\ Emitted(e, x, y, cs) = <<Order(Len(cs), "BUY")>>
         \/ /\ ~Buys(e, x, y, cs) /\ Sells(e, x, y, cs)
            /\ Emitted(e, x, y, cs) = <<Order(Len(cs), "SELL")>>
         \/ ~Buys(e, x, y, cs) /\ ~Sells(e, x, y, cs) /\ Emitted(e, x, y, cs) = <<>>
<1>1. CASE Buys(e, x, y, cs)
  BY <1>1 DEF Emitted, Order
<1>2. CASE ~Buys(e, x, y, cs) /\ Sells(e, x, y, cs)
  BY <1>2 DEF Emitted, Order
<1>3. CASE ~Buys(e, x, y, cs) /\ ~Sells(e, x, y, cs)
  BY <1>3 DEF Emitted, Order
<1> QED
  BY <1>1, <1>2, <1>3

LEMMA OrderTyped ==
  ASSUME NEW i \in Nat, NEW side \in {"BUY", "SELL"}
  PROVE  /\ Order(i, side) \in Signal /\ <<Order(i, side)>> \in Seq(Signal)
         /\ Order(i, side).at = i /\ Order(i, side).side = side
<1>1. Order(i, side) \in Signal /\ Order(i, side).at = i /\ Order(i, side).side = side
  BY DEF Order, Signal
<1> HIDE DEF Signal, Order
<1> QED
  BY <1>1

\* What a sequence with one more signal holds.
LEMMA OneMore ==
  ASSUME NEW s \in Seq(Signal), NEW o \in Signal
  PROVE  /\ s \o <<o>> \in Seq(Signal) /\ Len(s \o <<o>>) = Len(s) + 1
         /\ (s \o <<o>>)[Len(s) + 1] = o
         /\ \A k \in 1..Len(s) : (s \o <<o>>)[k] = s[k]
         /\ s \o <<o>> # <<>> /\ Last(s \o <<o>>) = o
         /\ Head(s \o <<o>>) = IF s = <<>> THEN o ELSE Head(s)
<1> HIDE DEF Signal
<1> DEFINE r == s \o <<o>>
<1>1. /\ r \in Seq(Signal) /\ Len(r) = Len(s) + 1 /\ r[Len(s) + 1] = o
      /\ \A k \in 1..Len(s) : r[k] = s[k]
  OBVIOUS
<1>2. r # <<>> /\ Head(r) = r[1]
  BY <1>1
<1>3. s = <<>> => Len(s) + 1 = 1
  OBVIOUS
<1>4. s # <<>> => 1 \in 1..Len(s) /\ Head(s) = s[1]
  OBVIOUS
<1> HIDE DEF r
<1>5. Head(r) = IF s = <<>> THEN o ELSE Head(s)
  BY <1>1, <1>2, <1>3, <1>4
<1>6. Last(r) = o
  BY <1>1 DEF Last
<1> QED
  BY <1>1, <1>2, <1>5, <1>6 DEF r

LEMMA SignalsTyped ==
  ASSUME NEW n \in Nat, NEW s \in Seq(Signal), \A k \in DOMAIN s : s[k].at \in 1..n,
         NEW e, NEW x, NEW y, NEW cs, Len(cs) = n + 1
  PROVE  LET r == s \o Emitted(e, x, y, cs)
         IN  r \in Seq(Signal) /\ \A k \in DOMAIN r : r[k].at \in 1..(n + 1)
<1> DEFINE out == Emitted(e, x, y, cs)
<1>1. CASE out = <<>>
  <2>1. s \o <<>> = s
    OBVIOUS
  <2> HIDE DEF out
  <2>2. \A k \in DOMAIN s : s[k].at \in 1..(n + 1)
    OBVIOUS
  <2> QED
    BY <1>1, <2>1, <2>2 DEF out
<1>2. CASE \E side \in {"BUY", "SELL"} : out = <<Order(Len(cs), side)>>
  <2>1. PICK side \in {"BUY", "SELL"} : out = <<Order(n + 1, side)>>
    BY <1>2
  <2> DEFINE o == Order(n + 1, side)
             r == s \o <<o>>
  <2>2. o \in Signal /\ o.at = n + 1 /\ n + 1 \in 1..(n + 1)
    BY OrderTyped
  <2> HIDE DEF out, o
  <2>3. /\ r \in Seq(Signal) /\ Len(r) = Len(s) + 1 /\ r[Len(s) + 1] = o
        /\ \A k \in 1..Len(s) : r[k] = s[k]
    BY <2>2, OneMore
  <2> HIDE DEF r
  <2>4. ASSUME NEW k \in DOMAIN r PROVE r[k].at \in 1..(n + 1)
    <3>1. k \in 1..Len(s) \/ k = Len(s) + 1
      BY <2>3
    <3>2. CASE k \in 1..Len(s)
      <4>1. r[k] = s[k] /\ s[k].at \in 1..n
        BY <2>3, <3>2
      <4> QED
        BY <4>1
    <3>3. CASE k = Len(s) + 1
      BY <2>2, <2>3, <3>3
    <3> QED
      BY <3>1, <3>2, <3>3
  <2> QED
    BY <2>1, <2>3, <2>4 DEF out, r, o
<1> QED
  BY <1>1, <1>2, EmittedCases

\* An evaluator that signals every change of side, and nothing else.
LEMMA Followed ==
  ASSUME NEW s \in Seq(Signal), NEW i \in Nat, NEW out, NEW up \in BOOLEAN, NEW now \in BOOLEAN,
         Tells(s, up),
         \/ ~up /\ now /\ out = <<Order(i, "BUY")>>
         \/ up /\ ~now /\ out = <<Order(i, "SELL")>>
         \/ out = <<>> /\ (s = <<>> \/ (now <=> up))
  PROVE  /\ Tells(s \o out, now)
         /\ Alternates(s) => Alternates(s \o out)
<1>1. CASE out = <<>>
  <2>1. s \o out = s
    BY <1>1
  <2>2. s = <<>> \/ (now <=> up)
    <3>1. <<Order(i, "BUY")>> # <<>> /\ <<Order(i, "SELL")>> # <<>>
      OBVIOUS
    <3> QED
      BY <1>1, <3>1
  <2>3. Tells(s, now)
    BY <2>2 DEF Tells
  <2> QED
    BY <2>1, <2>3
<1>2. CASE out # <<>>
  <2>1. PICK side \in {"BUY", "SELL"} :
          out = <<Order(i, side)>> /\ (side = "BUY" <=> now) /\ (now <=> ~up)
    BY <1>2
  <2> DEFINE o == Order(i, side)
             r == s \o <<o>>
  <2>2. o \in Signal /\ o.side = side
    BY OrderTyped
  <2> HIDE DEF o
  <2>3. /\ r \in Seq(Signal) /\ Len(r) = Len(s) + 1 /\ r[Len(s) + 1] = o
        /\ \A k \in 1..Len(s) : r[k] = s[k]
        /\ r # <<>> /\ Last(r) = o
    BY <2>2, OneMore
  <2> HIDE DEF r
  <2>4. Tells(r, now)
    BY <2>1, <2>2, <2>3 DEF Tells
  <2>5. ASSUME Alternates(s), NEW k \in 1..Len(r) - 1 PROVE r[k].side # r[k + 1].side
    <3>1. Len(s) \in Nat /\ k \in 1..Len(s) /\ r[k] = s[k]
      BY <2>3
    <3>2. CASE k = Len(s)
      <4>1. s # <<>> /\ Last(s) = s[k]
        BY <3>1, <3>2 DEF Last
      <4>2. s[k].side = "BUY" <=> up
        BY <4>1 DEF Tells
      <4>3. r[k + 1] = o
        BY <2>3, <3>2
      <4> QED
        BY <2>1, <2>2, <3>1, <4>2, <4>3
    <3>3. CASE k # Len(s)
      <4>1. k \in 1..Len(s) - 1 /\ k + 1 \in 1..Len(s)
        BY <3>1, <3>3
      <4> QED
        BY <2>3, <2>5, <3>1, <4>1 DEF Alternates
    <3> QED
      BY <3>2, <3>3
  <2>6. Alternates(s) => Alternates(r)
    BY <2>5 DEF Alternates
  <2> QED
    BY <2>1, <2>4, <2>6 DEF r, o
<1> QED
  BY <1>1, <1>2

-----------------------------------------------------------------------------
(* One candle more, evaluator by evaluator.                                *)

\* A signal is emitted, or the sequence stays.
LEMMA NewSignals ==
  ASSUME NEW s \in Seq(Signal), NEW i \in Nat, NEW out,
         out = <<Order(i, "BUY")>> \/ out = <<Order(i, "SELL")>> \/ out = <<>>
  PROVE  /\ s \o out # <<>> => s # <<>> \/ out # <<>>
         /\ s # <<>> => s \o out # <<>>
         /\ s # <<>> => Head(s \o out) = Head(s)
         /\ s = <<>> /\ out # <<>> => Head(s \o out) = out[1]
<1>1. CASE out = <<>>
  <2>1. s \o out = s
    BY <1>1
  <2> QED
    BY <1>1, <2>1
<1>2. CASE out # <<>>
  <2>1. PICK side \in {"BUY", "SELL"} : out = <<Order(i, side)>>
    BY <1>2
  <2> DEFINE o == Order(i, side)
  <2>2. o \in Signal
    BY OrderTyped
  <2> HIDE DEF o
  <2>3. s \o <<o>> # <<>> /\ Head(s \o <<o>>) = IF s = <<>> THEN o ELSE Head(s)
    BY <2>2, OneMore
  <2>4. out = <<o>> /\ out[1] = o
    BY <2>1 DEF o
  <2> QED
    BY <1>2, <2>3, <2>4
<1> QED
  BY <1>1, <1>2

LEMMA MovingAveragesKept ==
  ASSUME NEW cs \in Seq(Bars), NEW c \in Bars, NEW x, NEW y, NEW s \in Seq(Signal),
         MovingAveragesAre(cs, x, s)
  PROVE  MovingAveragesAre(Append(cs, c), y,
                           s \o Emitted("ma_crossover", x, y, Append(cs, c)))
<1> DEFINE ds == Append(cs, c)
           i == Len(ds)
           out == Emitted("ma_crossover", x, y, ds)
           up == ShortAbove(x)
           now == ShortAbove(y)
<1>1. i \in Nat /\ i = Len(cs) + 1 /\ Len(cs) \in Nat
  OBVIOUS
<1>2. up \in BOOLEAN /\ now \in BOOLEAN
  BY DEF ShortAbove
<1>3. /\ Buys("ma_crossover", x, y, ds) <=> i > LongMA /\ now /\ ~up
      /\ Sells("ma_crossover", x, y, ds) <=> i > LongMA /\ ~now /\ up
  BY DEF Buys, Sells
<1>4. s # <<>> => i > LongMA
  BY <1>1, Periods DEF MovingAveragesAre
<1> HIDE DEF ds, i, up, now
<1>5. \/ i > LongMA /\ ~up /\ now /\ out = <<Order(i, "BUY")>>
      \/ i > LongMA /\ up /\ ~now /\ out = <<Order(i, "SELL")>>
      \/ out = <<>> /\ (s = <<>> \/ (now <=> up))
  BY <1>2, <1>3, <1>4, EmittedCases DEF i
<1> HIDE DEF out
<1>6. Tells(s, up) /\ Alternates(s)
  BY DEF MovingAveragesAre, up
<1>7. Tells(s \o out, now) /\ Alternates(s \o out)
  BY <1>1, <1>2, <1>5, <1>6, Followed
<1>8. s \o out # <<>> => i > LongMA
  BY <1>1, <1>4, <1>5, NewSignals
<1> QED
  BY <1>7, <1>8 DEF MovingAveragesAre, ds, i, out, now

LEMMA SupertrendKept ==
  ASSUME NEW cs \in Seq(Bars), NEW c \in Bars, NEW x, NEW y, NEW s \in Seq(Signal),
         x.dir \in {1, -1}, y.dir \in {1, -1}, SupertrendIs(cs, x, s)
  PROVE  SupertrendIs(Append(cs, c), y, s \o Emitted("supertrend", x, y, Append(cs, c)))
<1> DEFINE ds == Append(cs, c)
           i == Len(ds)
           out == Emitted("supertrend", x, y, ds)
           up == x.dir = 1
           now == y.dir = 1
<1>1. i \in Nat /\ i = Len(cs) + 1 /\ Len(cs) \in Nat
  OBVIOUS
<1>2. up \in BOOLEAN /\ now \in BOOLEAN
  OBVIOUS
<1>3. /\ Buys("supertrend", x, y, ds) <=> i > SupertrendPer /\ now /\ ~up
      /\ Sells("supertrend", x, y, ds) <=> i > SupertrendPer /\ ~now /\ up
  BY DEF Buys, Sells
<1>4. s # <<>> => i > SupertrendPer
  BY <1>1, Periods DEF SupertrendIs
<1> HIDE DEF ds, i, up, now
<1>5. \/ i > SupertrendPer /\ ~up /\ now /\ out = <<Order(i, "BUY")>>
      \/ i > SupertrendPer /\ up /\ ~now /\ out = <<Order(i, "SELL")>>
      \/ out = <<>> /\ (s = <<>> \/ (now <=> up))
  BY <1>2, <1>3, <1>4, EmittedCases DEF i
<1> HIDE DEF out
<1>6. Tells(s, up) /\ Alternates(s)
  BY DEF SupertrendIs, up
<1>7. Tells(s \o out, now) /\ Alternates(s \o out)
  BY <1>1, <1>2, <1>5, <1>6, Followed
<1>8. s \o out # <<>> => i > SupertrendPer
  BY <1>1, <1>4, <1>5, NewSignals
<1> QED
  BY <1>7, <1>8 DEF SupertrendIs, ds, i, out, now

\* The high of the candles before, the greatest of them.
LEMMA PeriodHighBounds ==
  ASSUME NEW cs \in Seq(Bars), NEW i \in 1..Len(cs), i > Lookback
  PROVE  /\ PeriodHigh(cs, i) \in Nat
         /\ \A b \in Int : b > PeriodHigh(cs, i) <=> \A j \in Window(i - 1, Lookback) : b > cs[j].high
<1> DEFINE from == (i - 1) - Lookback + 1
           to == i - 1
           high == [j \in 1..Len(cs) |-> cs[j].high]
<1>1. from \in 1..Len(cs) /\ to \in 1..Len(cs) /\ from <= to /\ from \in Int /\ to \in Int
  BY Periods
<1>2. \A j \in from..to : j \in 1..Len(cs)
  BY <1>1
<1>3. Window(i - 1, Lookback) = from..to
  BY DEF Window
<1> HIDE DEF from, to
<1>4. \A j \in from..to : high[j] \in Nat /\ high[j] = cs[j].high
  BY <1>2, BarTyped, ElementOfSeq
<1>5. {cs[j].high : j \in from..to} = {high[j] : j \in from..to}
  BY <1>4
<1>6. PeriodHigh(cs, i) = Max({high[j] : j \in from..to})
  BY <1>3, <1>5 DEF PeriodHigh
<1> HIDE DEF high
<1>7. /\ PeriodHigh(cs, i) \in {high[j] : j \in from..to}
      /\ \A j \in from..to : PeriodHigh(cs, i) >= high[j]
  <2>1. \A j \in from..to : high[j] \in Int
    BY <1>4
  <2>2. /\ Max({high[j] : j \in from..to}) \in {high[j] : j \in from..to}
        /\ \A j \in from..to : Max({high[k] : k \in from..to}) >= high[j]
    BY <1>1, <2>1, MaxOfNumbered, Zenon
  <2> QED
    BY <1>6, <2>2, Zenon
<1>8. PICK k \in from..to : PeriodHigh(cs, i) = high[k]
  BY <1>7
<1>9. PeriodHigh(cs, i) \in Nat
  BY <1>4, <1>8
<1>10. ASSUME NEW b \in Int
       PROVE  b > PeriodHigh(cs, i) <=> \A j \in from..to : b > cs[j].high
  <2>1. ASSUME b > PeriodHigh(cs, i), NEW j \in from..to PROVE b > cs[j].high
    BY <1>4, <1>7, <1>9, <2>1
  <2>2. ASSUME \A j \in from..to : b > cs[j].high PROVE b > PeriodHigh(cs, i)
    BY <1>4, <1>8, <2>2
  <2> QED
    BY <2>1, <2>2
<1> QED
  BY <1>3, <1>9, <1>10

LEMMA MomentumKept ==
  ASSUME NEW cs \in Seq(Bars), NEW c \in Bars, NEW x, NEW s \in Seq(Signal),
         x.inBreakout \in BOOLEAN, MomentumIs(cs, x, s)
  PROVE  LET ds == Append(cs, c)
             y == Reading(x, ds)
         IN  MomentumIs(ds, y, s \o Emitted("momentum", x, y, ds))
<1> DEFINE ds == Append(cs, c)
           i == Len(ds)
           y == Reading(x, ds)
           out == Emitted("momentum", x, y, ds)
           up == x.inBreakout
           now == Breakout(ds, i)
           fell == FellBack(ds, i)
<1>1. /\ i \in Nat /\ i = Len(cs) + 1 /\ Len(cs) \in Nat /\ ds \in Seq(Bars) /\ i \in 1..Len(ds)
  OBVIOUS
<1>2. y.inBreakout <=> ~fell /\ (now \/ up)
  BY DEF Reading
<1>3. /\ Buys("momentum", x, y, ds) <=> now /\ ~up
      /\ Sells("momentum", x, y, ds) <=> fell /\ up
  BY DEF Buys, Sells, Enters
<1> HIDE DEF ds
<1>4. now \in BOOLEAN
  BY DEF Breakout
<1>5. /\ i > Lookback => (fell <=> ~now)
      /\ ~(i > Lookback) => ~fell /\ ~now
  <2>1. CASE i > Lookback
    <3> DEFINE high == PeriodHigh(ds, i)
    <3>1. ds[i].close \in Nat /\ high \in Nat
      BY <1>1, <2>1, PeriodHighBounds, BarTyped, ElementOfSeq
    <3>2. (fell <=> ds[i].close <= high) /\ (now <=> ds[i].close > high)
      BY <2>1 DEF FellBack, Breakout
    <3> HIDE DEF high, i, fell, now
    <3> QED
      BY <2>1, <3>1, <3>2
  <2>2. CASE ~(i > Lookback)
    BY <2>2 DEF FellBack, Breakout
  <2> QED
    BY <2>1, <2>2
<1>6. up => i > Lookback
  BY <1>1, Periods DEF MomentumIs, Breakout
<1>7. s # <<>> => i > Lookback
  BY <1>1, Periods DEF MomentumIs
<1>8. y.inBreakout <=> now
  BY <1>2, <1>5, <1>6
<1>9. now => i > Lookback
  BY <1>5
<1> HIDE DEF i, now, up, fell, y
<1>10. \/ i > Lookback /\ ~up /\ now /\ out = <<Order(i, "BUY")>>
       \/ i > Lookback /\ up /\ ~now /\ out = <<Order(i, "SELL")>>
       \/ out = <<>> /\ (now <=> up)
  BY <1>3, <1>4, <1>5, <1>6, <1>9, EmittedCases DEF i, up
<1> HIDE DEF out
<1>11. Tells(s, up) /\ Alternates(s) /\ (s = <<>> => ~up) /\ (s # <<>> => Head(s).side = "BUY")
  BY DEF MomentumIs, up
<1>12. Tells(s \o out, now) /\ Alternates(s \o out)
  <2>1. up \in BOOLEAN
    BY DEF up
  <2> QED
    BY <1>1, <1>4, <1>10, <1>11, <2>1, Followed
<1>13. s \o out # <<>> => i > Lookback /\ Head(s \o out).side = "BUY"
  <2>1. CASE s # <<>>
    BY <1>1, <1>7, <1>10, <1>11, <2>1, NewSignals
  <2>2. CASE s = <<>> /\ out # <<>>
    <3>1. out = <<Order(i, "BUY")>> /\ i > Lookback /\ out[1].side = "BUY"
      BY <1>10, <1>11, <2>2 DEF Order
    <3> QED
      BY <1>1, <2>2, <3>1, NewSignals
  <2>3. CASE s = <<>> /\ out = <<>>
    BY <1>1, <1>10, <2>3, NewSignals
  <2> QED
    BY <2>1, <2>2, <2>3
<1>14. s \o out = <<>> => ~now
  <2>1. CASE s # <<>>
    BY <1>1, <1>10, <2>1, NewSignals
  <2>2. CASE s = <<>> /\ out # <<>>
    <3>1. PICK side \in {"BUY", "SELL"} : out = <<Order(i, side)>>
      BY <1>10, <2>2
    <3>2. Order(i, side) \in Signal
      BY <1>1, OrderTyped
    <3> QED
      BY <3>1, <3>2, OneMore
  <2>3. CASE s = <<>> /\ out = <<>>
    <3>1. now <=> up
      BY <1>10, <2>3
    <3> QED
      BY <1>11, <2>3, <3>1
  <2> QED
    BY <2>1, <2>2, <2>3
<1>15. MomentumIs(ds, y, s \o out)
  <2>1. (y.inBreakout <=> Breakout(ds, Len(ds))) /\ i = Len(ds)
    BY <1>8 DEF now, i
  <2>2. Tells(s \o out, y.inBreakout)
    BY <1>8, <1>12 DEF Tells
  <2> QED
    BY <1>8, <1>12, <1>13, <1>14, <2>1, <2>2 DEF MomentumIs
<1> QED
  BY <1>15 DEF ds, y, out

LEMMA VWAPKept ==
  ASSUME NEW cs \in Seq(Bars), NEW c \in Bars, NEW xs \in Seq(Entry), Len(xs) = Len(cs),
         NEW y, NEW s \in Seq(Signal), VWAPIs(cs, xs, s)
  PROVE  VWAPIs(Append(cs, c), Append(xs, y),
                s \o Emitted("vwap_crossover", Carried(xs), y, Append(cs, c)))
<1> DEFINE n == Len(cs)
           i == n + 1
           ds == Append(cs, c)
           ys == Append(xs, y)
           x == Carried(xs)
           out == Emitted("vwap_crossover", x, y, ds)
           up == CloseAbove(cs[n], x)
           now == CloseAbove(c, y)
           live == x.vol > 0 /\ y.vol > 0
<1>1. /\ n \in Nat /\ i \in Nat /\ Len(ds) = i /\ ds[i] = c /\ i - 1 = n /\ (n > 0 => ds[n] = cs[n])
      /\ Last(ds) = c /\ Len(ys) = i /\ ys # <<>>
      /\ ys[i] = y /\ Carried(ys) = y /\ \A j \in 1..n : ys[j] = xs[j]
  BY DEF Carried, Last
<1>2. n > 0 => x = xs[n] /\ Last(cs) = cs[n]
  BY DEF Carried, Last
<1>3. up \in BOOLEAN /\ now \in BOOLEAN
  BY DEF CloseAbove
<1>4. i > VWAPPeriod => n > 0
  BY <1>1, Periods
<1>5. /\ Buys("vwap_crossover", x, y, ds) <=> i > VWAPPeriod /\ live /\ now /\ ~up
      /\ Sells("vwap_crossover", x, y, ds) <=> i > VWAPPeriod /\ live /\ ~now /\ up
  <2> HIDE DEF ds, x, i, n
  <2>1. /\ Buys("vwap_crossover", x, y, ds)
             <=> i > VWAPPeriod /\ live /\ CloseAbove(ds[i], y) /\ ~CloseAbove(ds[i - 1], x)
        /\ Sells("vwap_crossover", x, y, ds)
             <=> i > VWAPPeriod /\ live /\ ~CloseAbove(ds[i], y) /\ CloseAbove(ds[i - 1], x)
    BY <1>1 DEF Buys, Sells
  <2> HIDE DEF live
  <2> QED
    BY <1>1, <1>4, <2>1
<1>6. s # <<>> => n > VWAPPeriod /\ i > VWAPPeriod
  BY Periods DEF VWAPIs
<1> HIDE DEF ds, i, n, x, ys, up, now, live
<1>7. \/ i > VWAPPeriod /\ ~up /\ now /\ out = <<Order(i, "BUY")>>
      \/ i > VWAPPeriod /\ up /\ ~now /\ out = <<Order(i, "SELL")>>
      \/ out = <<>> /\ (i > VWAPPeriod /\ live => (now <=> up))
  BY <1>1, <1>3, <1>5, EmittedCases
<1> HIDE DEF out
<1>8. s \o out # <<>> => i > VWAPPeriod
  BY <1>1, <1>6, <1>7, NewSignals
<1>9. ASSUME \A j \in VWAPPeriod..i : ys[j].vol > 0
      PROVE  Tells(s \o out, now)
  <2>1. CASE s = <<>> /\ out = <<>>
    BY <2>1 DEF Tells
  <2>2. CASE s # <<>> \/ out # <<>>
    <3>1. i > VWAPPeriod /\ n \in VWAPPeriod..i /\ i \in VWAPPeriod..i /\ n \in 1..n /\ n > 0
      <4>1. i > VWAPPeriod
        BY <1>6, <1>7, <2>2
      <4> QED
        BY <1>1, <4>1, Periods DEF i
    <3>2. live
      BY <1>1, <1>2, <1>9, <3>1 DEF live
    <3>3. \A j \in VWAPPeriod..n : xs[j].vol > 0
      <4>1. \A j \in VWAPPeriod..n : j \in VWAPPeriod..i /\ j \in 1..n
        BY <1>1, Periods DEF i
      <4> QED
        BY <1>1, <1>9, <4>1
    <3>4. Tells(s, up)
      BY <1>2, <3>1, <3>3 DEF VWAPIs, n, up, x
    <3> QED
      BY <1>1, <1>3, <1>7, <3>1, <3>2, <3>4, Followed
  <2> QED
    BY <2>1, <2>2
<1>10. VWAPIs(ds, ys, s \o out)
  BY <1>1, <1>8, <1>9 DEF VWAPIs, now
<1> QED
  BY <1>10 DEF ds, ys, out, x

LEMMA RSIKept ==
  ASSUME NEW n \in Nat, NEW xs \in Seq(Entry), Len(xs) = n, NEW cs, Len(cs) = n + 1, NEW y,
         NEW s \in Seq(Signal), \A k \in DOMAIN s : s[k].at \in 1..n,
         RSIIs(xs, s)
  PROVE  RSIIs(Append(xs, y), s \o Emitted("rsi_oversold", Carried(xs), y, cs))
<1> DEFINE i == n + 1
           ys == Append(xs, y)
           x == Carried(xs)
           out == Emitted("rsi_oversold", x, y, cs)
<1>1. \A j \in 1..n : ys[j] = xs[j]
  OBVIOUS
<1>2. n > 0 => x = xs[n]
  BY DEF Carried, Last
<1>3. /\ Buys("rsi_oversold", x, y, cs) => n > 0 /\ Outside(x, "BUY")
      /\ Sells("rsi_oversold", x, y, cs) => n > 0 /\ Outside(x, "SELL")
  BY Periods DEF Buys, Sells, Outside
<1> HIDE DEF ys, x
<1>4. ASSUME NEW k \in DOMAIN s PROVE s[k].at > 1 /\ Outside(ys[s[k].at - 1], s[k].side)
  <2>1. s[k].at > 1 /\ s[k].at \in 1..n /\ Outside(xs[s[k].at - 1], s[k].side)
    BY DEF RSIIs
  <2>2. s[k].at - 1 \in 1..n
    BY <2>1
  <2> QED
    BY <1>1, <2>1, <2>2
<1>5. CASE out = <<>>
  <2>1. s \o out = s
    BY <1>5
  <2>2. RSIIs(ys, s)
    BY <1>4 DEF RSIIs
  <2> QED
    BY <2>1, <2>2 DEF out, ys, x
<1>6. CASE out # <<>>
  <2>1. PICK side \in {"BUY", "SELL"} : out = <<Order(i, side)>> /\ n > 0 /\ Outside(x, side)
    BY <1>3, <1>6, EmittedCases
  <2> DEFINE o == Order(i, side)
             r == s \o <<o>>
  <2>2. o \in Signal /\ o.at = i /\ o.side = side
    BY OrderTyped
  <2> HIDE DEF o, out
  <2>3. /\ r \in Seq(Signal) /\ Len(r) = Len(s) + 1 /\ r[Len(s) + 1] = o
        /\ \A k \in 1..Len(s) : r[k] = s[k]
    BY <2>2, OneMore
  <2> HIDE DEF r
  <2>4. ASSUME NEW k \in DOMAIN r PROVE r[k].at > 1 /\ Outside(ys[r[k].at - 1], r[k].side)
    <3>1. k \in 1..Len(s) \/ k = Len(s) + 1
      BY <2>3
    <3>2. CASE k \in 1..Len(s)
      BY <1>4, <2>3, <3>2
    <3>3. CASE k = Len(s) + 1
      <4>1. i > 1 /\ i - 1 = n /\ n \in 1..n
        BY <2>1
      <4> QED
        BY <1>1, <1>2, <2>1, <2>2, <2>3, <3>3, <4>1
    <3> QED
      BY <3>1, <3>2, <3>3
  <2>5. ASSUME NEW k \in 1..(Len(r) - 1) PROVE r[k].at < r[k + 1].at
    <3>1. Len(s) \in Nat /\ k \in 1..Len(s) /\ r[k] = s[k]
      BY <2>3
    <3>2. CASE k = Len(s)
      <4>1. r[k + 1] = o /\ s[k].at \in 1..n
        BY <2>3, <3>1, <3>2
      <4> QED
        BY <2>2, <3>1, <4>1
    <3>3. CASE k # Len(s)
      <4>1. k \in 1..(Len(s) - 1) /\ k + 1 \in 1..Len(s)
        BY <3>1, <3>3
      <4> QED
        BY <2>3, <3>1, <4>1 DEF RSIIs
    <3> QED
      BY <3>2, <3>3
  <2>6. RSIIs(ys, r)
    BY <2>4, <2>5 DEF RSIIs
  <2> QED
    BY <2>1, <2>6 DEF r, o, out, ys, x
<1> QED
  BY <1>5, <1>6

-----------------------------------------------------------------------------
(* The invariant holds.                                                    *)

LEMMA CarriedTyped ==
  ASSUME NEW xs \in Seq(Entry)
  PROVE  Carried(xs) \in Entry
<1>1. Empty \in Entry
  BY DEF Empty, Entry
<1>2. xs # <<>> => Last(xs) \in Entry
  <2>1. xs # <<>> => Len(xs) \in 1..Len(xs)
    OBVIOUS
  <2> QED
    BY <2>1, ElementOfSeq DEF Last
<1> QED
  BY <1>1, <1>2 DEF Carried

LEMMA IndInvAtStart == Init => IndInv
<1> SUFFICES ASSUME Init PROVE IndInv
  OBVIOUS
<1>1. /\ candles = <<>> /\ ind = <<>> /\ signals = [e \in Evaluators |-> <<>>]
      /\ Len(candles) = 0
  BY DEF Init
<1>2. Carried(ind) = Empty
  BY <1>1 DEF Carried
<1>3. Typed(candles, ind, signals)
  <2>1. candles \in Seq(Bars) /\ ind \in Seq(Entry) /\ Len(ind) = 0
    BY <1>1
  <2>2. <<>> \in Seq(Signal) /\ \A e \in Evaluators : signals[e] = <<>>
    BY <1>1
  <2>3. signals \in [Evaluators -> Seq(Signal)]
    BY <1>1, <2>2
  <2> QED
    BY <1>1, <2>1, <2>2, <2>3 DEF Typed
<1>4. SumsAre(candles, Carried(ind))
  <2>1. ASSUME NEW vals, NEW p \in Nat \ {0} PROVE LastSum(vals, p, 0) = 0
    BY WindowStart, SumOfNothing DEF LastSum
  <2> QED
    BY <1>1, <1>2, <2>1, Periods DEF SumsAre, Empty
<1>5. LinesAre(candles, ind)
  BY <1>1, Periods DEF LinesAre
<1>6. \A e \in Evaluators : signals[e] = <<>>
  BY <1>1
<1>7. Alternates(<<>>)
  BY DEF Alternates
<1>8. MovingAveragesAre(candles, Carried(ind), signals["ma_crossover"])
  BY <1>6, <1>7 DEF MovingAveragesAre, Tells, Evaluators
<1>9. SupertrendIs(candles, Carried(ind), signals["supertrend"])
  BY <1>6, <1>7 DEF SupertrendIs, Tells, Evaluators
<1>10. MomentumIs(candles, Carried(ind), signals["momentum"])
  <2>1. ~Carried(ind).inBreakout /\ ~Breakout(candles, Len(candles))
    BY <1>1, <1>2, Periods DEF Empty, Breakout
  <2> QED
    BY <1>6, <1>7, <2>1 DEF MomentumIs, Tells, Evaluators
<1>11. VWAPIs(candles, ind, signals["vwap_crossover"])
  BY <1>6 DEF VWAPIs, Tells, Evaluators
<1>12. RSIIs(ind, signals["rsi_oversold"])
  <2>1. signals["rsi_oversold"] = <<>>
    BY <1>6 DEF Evaluators
  <2> QED
    BY <2>1 DEF RSIIs
<1> QED
  BY <1>3, <1>4, <1>5, <1>8, <1>9, <1>10, <1>11, <1>12 DEF IndInv

LEMMA TypedKept ==
  ASSUME NEW cs, NEW xs, NEW sg, Typed(cs, xs, sg), SumsAre(cs, Carried(xs)), NEW c \in Bars
  PROVE  LET ds == Append(cs, c)
             x == Carried(xs)
             y == Reading(x, ds)
         IN  Typed(ds, Append(xs, y), [e \in Evaluators |-> sg[e] \o Emitted(e, x, y, ds)])
<1> DEFINE ds == Append(cs, c)
           x == Carried(xs)
           y == Reading(x, ds)
           ys == Append(xs, y)
           tg == [e \in Evaluators |-> sg[e] \o Emitted(e, x, y, ds)]
<1>1. /\ cs \in Seq(Bars) /\ xs \in Seq(Entry) /\ Len(xs) = Len(cs)
      /\ sg \in [Evaluators -> Seq(Signal)]
  BY DEF Typed
<1>2. ds \in Seq(Bars) /\ Len(ds) = Len(cs) + 1 /\ Len(cs) \in Nat
  BY <1>1
<1>3. y \in Entry
  BY <1>1, CarriedTyped, ReadingTyped
<1> HIDE DEF ds, x, y, Entry, Signal
<1>4. ys \in Seq(Entry) /\ Len(ys) = Len(ds)
  BY <1>1, <1>2, <1>3
<1>5. ASSUME NEW e \in Evaluators
      PROVE  tg[e] \in Seq(Signal) /\ \A k \in DOMAIN tg[e] : tg[e][k].at \in 1..Len(ds)
  <2>1. sg[e] \in Seq(Signal) /\ \A k \in DOMAIN sg[e] : sg[e][k].at \in 1..Len(cs)
    BY <1>1 DEF Typed
  <2>2. tg[e] = sg[e] \o Emitted(e, x, y, ds)
    OBVIOUS
  <2> HIDE DEF tg
  <2>3. /\ sg[e] \o Emitted(e, x, y, ds) \in Seq(Signal)
        /\ \A k \in DOMAIN (sg[e] \o Emitted(e, x, y, ds)) :
             (sg[e] \o Emitted(e, x, y, ds))[k].at \in 1..(Len(cs) + 1)
    BY <1>2, <2>1, SignalsTyped
  <2> QED
    BY <1>2, <2>2, <2>3
<1>6. tg \in [Evaluators -> Seq(Signal)]
  BY <1>5
<1> HIDE DEF ys, tg
<1>7. Typed(ds, ys, tg)
  BY <1>2, <1>4, <1>5, <1>6 DEF Typed
<1> QED
  BY <1>7 DEF ds, x, y, ys, tg

LEMMA IndInvKept == IndInv /\ [Next]_vars => IndInv'
<1> SUFFICES ASSUME IndInv, [Next]_vars PROVE IndInv'
  OBVIOUS
<1>1. CASE UNCHANGED vars
  BY <1>1 DEF IndInv, vars
<1>2. CASE Next
  <2> DEFINE x == Carried(ind)
  <2>1. PICK c \in Bars :
          /\ candles' = Append(candles, c)
          /\ ind' = Append(ind, Reading(x, Append(candles, c)))
          /\ signals' = [e \in Evaluators |->
               signals[e] \o Emitted(e, x, Reading(x, Append(candles, c)), Append(candles, c))]
    BY <1>2 DEF Next, ReadCandle, Carried
  <2> DEFINE ds == Append(candles, c)
             y == Reading(x, ds)
             ys == Append(ind, y)
             tg == [e \in Evaluators |-> signals[e] \o Emitted(e, x, y, ds)]
  <2>2. candles' = ds /\ ind' = ys /\ signals' = tg
    BY <2>1
  <2>3. /\ candles \in Seq(Bars) /\ ind \in Seq(Entry) /\ Len(ind) = Len(candles)
        /\ signals \in [Evaluators -> Seq(Signal)] /\ SumsAre(candles, x)
        /\ Typed(candles, ind, signals)
    BY DEF IndInv, Typed
  <2>4. x \in Entry
    BY <2>3, CarriedTyped
  <2>5. y \in Entry
    BY <2>3, <2>4, ReadingTyped
  <2>6. Carried(ys) = y
    <3> HIDE DEF y
    <3>1. ys # <<>> /\ Len(ys) = Len(ind) + 1 /\ ys[Len(ind) + 1] = y
      BY <2>3
    <3> HIDE DEF ys
    <3> QED
      BY <3>1 DEF Carried, Last
  <2>7. Typed(ds, ys, tg)
    BY <2>3, TypedKept
  <2>8. SumsAre(ds, y)
    BY <2>3, SlidSums
  <2>9. LinesAre(ds, ys)
    BY <2>3, LinesKept DEF IndInv
  <2>10. \A e \in Evaluators : signals[e] \in Seq(Signal) /\ tg[e] = signals[e] \o Emitted(e, x, y, ds)
    BY <2>3
  <2>11. {"ma_crossover", "supertrend", "momentum", "rsi_oversold", "vwap_crossover"} \subseteq Evaluators
    BY DEF Evaluators
  <2>12. x.dir \in {1, -1} /\ y.dir \in {1, -1} /\ x.inBreakout \in BOOLEAN
    BY <2>4, <2>5 DEF Entry
  <2> HIDE DEF tg, ys, y, x
  <2>13. MovingAveragesAre(ds, y, tg["ma_crossover"])
    BY <2>3, <2>10, <2>11, MovingAveragesKept DEF IndInv, x
  <2>14. SupertrendIs(ds, y, tg["supertrend"])
    BY <2>3, <2>10, <2>11, <2>12, SupertrendKept DEF IndInv, x
  <2>15. MomentumIs(ds, y, tg["momentum"])
    BY <2>3, <2>10, <2>11, <2>12, MomentumKept DEF IndInv, x, y
  <2>16. VWAPIs(ds, ys, tg["vwap_crossover"])
    BY <2>3, <2>10, <2>11, VWAPKept DEF IndInv, x, ys
  <2>17. RSIIs(ys, tg["rsi_oversold"])
    <3>1. Len(candles) \in Nat /\ Len(ds) = Len(candles) + 1
      BY <2>3
    <3>2. \A k \in DOMAIN signals["rsi_oversold"] : signals["rsi_oversold"][k].at \in 1..Len(candles)
      BY <2>3, <2>11 DEF Typed
    <3> QED
      BY <2>3, <2>10, <2>11, <3>1, <3>2, RSIKept DEF IndInv, x, ys
  <2> HIDE DEF ds
  <2> QED
    BY <2>2, <2>6, <2>7, <2>8, <2>9, <2>13, <2>14, <2>15, <2>16, <2>17 DEF IndInv
<1> QED
  BY <1>1, <1>2

(* The invariant, for any candles and any periods: every running value of   *)
(* indicators.go stands for its window, and every evaluator has told the    *)
(* side it is on.                                                           *)
THEOREM IndicatorsInvariant == Spec => []IndInv
BY IndInvAtStart, IndInvKept, PTL DEF Spec

(* The slices stay aligned with the candles, the sums and Wilder's averages *)
(* stay non-negative, and every signal is dated at a candle read.           *)
THEOREM IndicatorsTypeCorrect == Spec => []TypeOK
<1>1. IndInv => TypeOK
  <2> SUFFICES ASSUME IndInv PROVE TypeOK
    OBVIOUS
  <2>1. /\ candles \in Seq(Bars) /\ ind \in Seq(Entry) /\ Len(ind) = Len(candles)
        /\ signals \in [Evaluators -> Seq(Signal)]
        /\ \A e \in Evaluators : \A k \in DOMAIN signals[e] : signals[e][k].at \in 1..Len(candles)
    BY DEF IndInv, Typed
  <2>2. ASSUME NEW k \in DOMAIN ind
        PROVE  /\ ind[k].dir \in {1, -1} /\ ind[k].inBreakout \in BOOLEAN
               /\ {ind[k].vol, ind[k].tpv, ind[k].gain, ind[k].loss, ind[k].atr} \subseteq Nat
    <3>1. ind[k] \in Entry
      BY <2>1, ElementOfSeq
    <3> QED
      BY <3>1 DEF Entry
  <2>3. ASSUME NEW e \in Evaluators, NEW k \in DOMAIN signals[e]
        PROVE  signals[e][k].at \in DOMAIN candles /\ signals[e][k].side \in {"BUY", "SELL"}
    <3>1. signals[e] \in Seq(Signal) /\ signals[e][k].at \in 1..Len(candles)
      BY <2>1
    <3>2. signals[e][k] \in Signal
      <4> HIDE DEF Signal
      <4> QED
        BY <3>1, ElementOfSeq
    <3> QED
      BY <2>1, <3>1, <3>2 DEF Signal
  <2> QED
    BY <2>1, <2>2, <2>3 DEF TypeOK
<1> QED
  BY <1>1, IndicatorsInvariant, PTL

(* A sum slid over any number of candles is the sum of the candles in the   *)
(* window, for any period and any prices: SMA and RollingVWAP evict exactly *)
(* the candle that has become a period old.                                 *)
THEOREM SlidingIsSumming == Spec => []SlidingSumsAreWindowSums
<1>1. IndInv => SlidingSumsAreWindowSums
  <2> SUFFICES ASSUME IndInv, N > 0 PROVE SlidingSumsAreWindowSums
    BY DEF SlidingSumsAreWindowSums
  <2>1. Carried(ind) = Now
    <3>1. Len(ind) = N
      BY DEF IndInv, Typed, N
    <3>2. ind # <<>>
      BY <3>1
    <3> QED
      BY <3>2 DEF Carried, Now
  <2> QED
    BY <2>1 DEF IndInv, SumsAre, LastSum, WindowSum, N, SlidingSumsAreWindowSums
<1> QED
  BY <1>1, IndicatorsInvariant, PTL

(* The Supertrend line never moves against a direction that is kept, except *)
(* after a candle caught between crossed bands.                             *)
THEOREM LineTrails == Spec => []SupertrendRatchets
<1>1. IndInv => SupertrendRatchets
  BY DEF IndInv, LinesAre, Ratchet, Beyond, Caught, N, SupertrendRatchets
<1> QED
  BY <1>1, IndicatorsInvariant, PTL

\* The last signals tell where the market is.
LEMMA SidesTold ==
  ASSUME IndInv
  PROVE  LastSignalTellsTheSide
<1> DEFINE close == Last(candles).close
           x == Carried(ind)
<1>1. /\ candles \in Seq(Bars) /\ ind \in Seq(Entry) /\ Len(ind) = N /\ Len(candles) = N /\ N \in Nat
      /\ signals \in [Evaluators -> Seq(Signal)]
  BY DEF IndInv, Typed, N
<1>2. N > 0 => /\ x = Now /\ x = ind[N] /\ Last(candles) = candles[N] /\ N \in 1..N
               /\ close \in Nat
  <2>1. N > 0 => ind # <<>> /\ N \in 1..N
    BY <1>1
  <2>2. N > 0 => candles[N] \in Bars
    BY <1>1, <2>1, ElementOfSeq
  <2> QED
    BY <1>1, <2>1, <2>2, BarTyped DEF Carried, Last, Now
<1>3. /\ x.short = WindowSum(Closes(candles), ShortMA)
      /\ x.long = WindowSum(Closes(candles), LongMA)
      /\ x.tpv = WindowSum(TPVs(candles), VWAPPeriod)
      /\ x.vol = WindowSum(Volumes(candles), VWAPPeriod)
  BY DEF IndInv, SumsAre, LastSum, WindowSum, N
<1> HIDE DEF x
<1>4. ASSUME signals["ma_crossover"] # <<>>
      PROVE  LastBuys("ma_crossover") <=>
               WindowSum(Closes(candles), ShortMA) * LongMA > WindowSum(Closes(candles), LongMA) * ShortMA
  <2>1. LastBuys("ma_crossover") <=> ShortAbove(x)
    BY <1>4 DEF IndInv, MovingAveragesAre, Tells, LastBuys, x
  <2> QED
    BY <1>3, <2>1 DEF ShortAbove
<1>5. ASSUME signals["momentum"] # <<>>
      PROVE  LastBuys("momentum") <=> \A j \in Window(N - 1, Lookback) : close > candles[j].high
  <2>1. /\ LastBuys("momentum") <=> x.inBreakout
        /\ x.inBreakout <=> Breakout(candles, N)
        /\ N > Lookback
    BY <1>5 DEF IndInv, MomentumIs, Tells, LastBuys, x, N
  <2>2. N > 0 /\ N \in 1..Len(candles)
    BY <1>1, <2>1, Periods
  <2>3. close \in Int /\ candles[N].close = close
    BY <1>2, <2>2
  <2>4. Breakout(candles, N) <=> close > PeriodHigh(candles, N)
    BY <2>1, <2>3 DEF Breakout
  <2> HIDE DEF close
  <2>5. close > PeriodHigh(candles, N) <=> \A j \in Window(N - 1, Lookback) : close > candles[j].high
    BY <1>1, <2>1, <2>2, <2>3, PeriodHighBounds
  <2> QED
    BY <2>1, <2>4, <2>5
<1>6. ASSUME signals["vwap_crossover"] # <<>>, \A j \in VWAPPeriod..N : ind[j].vol > 0
      PROVE  LastBuys("vwap_crossover") <=>
               3 * close * WindowSum(Volumes(candles), VWAPPeriod) > WindowSum(TPVs(candles), VWAPPeriod)
  <2>1. LastBuys("vwap_crossover") <=> CloseAbove(Last(candles), x)
    BY <1>6 DEF IndInv, VWAPIs, Tells, LastBuys, x, N
  <2> QED
    BY <1>3, <2>1 DEF CloseAbove
<1>7. ASSUME signals["supertrend"] # <<>>, ~Caught(N)
      PROVE  IF LastBuys("supertrend") THEN close >= Now.st ELSE close <= Now.st
  <2>1. (LastBuys("supertrend") <=> x.dir = 1) /\ N > SupertrendPer
    BY <1>7 DEF IndInv, SupertrendIs, Tells, LastBuys, x, N
  <2>2. N > 0 /\ N \in (SupertrendPer + 1)..N
    BY <1>1, <2>1, Periods
  <2>3. OnItsSide(candles[N], ind[N]) /\ ~Beyond(candles[N], ind[N])
    BY <1>7, <2>2 DEF IndInv, LinesAre, N, Caught, Beyond
  <2>4. x = Now /\ x = ind[N] /\ close = candles[N].close
    BY <1>2, <2>2
  <2> HIDE DEF close
  <2> QED
    BY <2>1, <2>3, <2>4 DEF OnItsSide
<1> QED
  BY <1>4, <1>5, <1>6, <1>7 DEF LastSignalTellsTheSide

LEMMA SidesTakeTurns ==
  ASSUME IndInv
  PROVE  SidesAlternate
<1>1. \A e \in {"ma_crossover", "supertrend", "momentum"} : Alternates(signals[e])
  BY DEF IndInv, MovingAveragesAre, SupertrendIs, MomentumIs
<1>2. signals["momentum"] # <<>> => Head(signals["momentum"]).side = "BUY"
  BY DEF IndInv, MomentumIs
<1> DEFINE s == signals["rsi_oversold"]
<1>3. ASSUME NEW k \in 1..Len(s) - 1, s[k].side = s[k + 1].side
      PROVE  \E j \in s[k].at..s[k + 1].at :
               IF s[k].side = "BUY" THEN ~Under(Rsi(ind[j]), Oversold)
                                    ELSE ~Over(Rsi(ind[j]), Overbought)
  <2>1. s \in Seq(Signal) /\ \A m \in DOMAIN s : s[m].at \in 1..Len(candles)
    BY DEF IndInv, Typed, Evaluators
  <2>2. RSIIs(ind, s)
    BY DEF IndInv
  <2> HIDE DEF s
  <2>3. k \in DOMAIN s /\ k + 1 \in DOMAIN s /\ k \in 1..(Len(s) - 1)
    BY <2>1
  <2>4. /\ s[k].at < s[k + 1].at /\ s[k].at \in Nat /\ s[k + 1].at \in Nat
        /\ Outside(ind[s[k + 1].at - 1], s[k + 1].side)
    BY <2>1, <2>2, <2>3 DEF RSIIs
  <2> DEFINE j == s[k + 1].at - 1
  <2>5. j \in s[k].at..s[k + 1].at
    BY <2>4
  <2>6. IF s[k].side = "BUY" THEN ~Under(Rsi(ind[j]), Oversold)
                             ELSE ~Over(Rsi(ind[j]), Overbought)
    BY <1>3, <2>4 DEF Outside
  <2> HIDE DEF j
  <2> QED
    BY <2>5, <2>6
<1> QED
  BY <1>1, <1>2, <1>3 DEF SidesAlternate

(* Who follows the signals of an evaluator knows where the market is, and   *)
(* is never told the same crossing twice, whatever the candles.             *)
THEOREM SignalsTellTheMarket == Spec => []SignalsFollowTheMarket
<1>1. IndInv => SignalsFollowTheMarket
  BY SidesTold, SidesTakeTurns DEF SignalsFollowTheMarket
<1> QED
  BY <1>1, IndicatorsInvariant, PTL
=============================================================================
