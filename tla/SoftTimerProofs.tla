--------------------------- MODULE SoftTimerProofs ---------------------------
(***************************************************************************)
(* For any number of timers, any intervals and any clock: the table is     *)
(* ordered by the times that are left, and no timer is missed.             *)
(***************************************************************************)
EXTENDS SoftTimer, NaturalsInduction, WellFoundedInduction, TLAPS

----------------------------------------------------------------------------
(***************************************************************************)
(* Induction and recursion over the first natural numbers, from the least  *)
(* element of a set of them.                                               *)
(***************************************************************************)
LEMMA LessWellFounded == IsWellFoundedOn({p \in Nat \X Nat : p[1] < p[2]}, Nat)
  BY NatLessThanWellFounded DEF OpToRel

\* A set with 0 that goes on up to m has all numbers up to m.
LEMMA UpTo ==
    ASSUME NEW m \in Nat, NEW S, 0 \in S, \A j \in 0..m - 1 : j \in S => j + 1 \in S
    PROVE  0..m \subseteq S
  <1> DEFINE T == {j \in 0..m : j \notin S}
  <1> SUFFICES ASSUME T # {}
               PROVE  FALSE
    OBVIOUS
  <1>1. PICK x \in T : \A y \in T : <<y, x>> \notin {p \in Nat \X Nat : p[1] < p[2]}
    <2>1. T \subseteq Nat
      OBVIOUS
    <2> HIDE DEF T
    <2> QED BY LessWellFounded, WFMin, <2>1
  <1>2. x \in 1..m /\ x \notin S
    OBVIOUS
  <1>3. x - 1 \in 0..m - 1 /\ x - 1 + 1 = x
    BY <1>2
  <1>4. <<x - 1, x>> \in {p \in Nat \X Nat : p[1] < p[2]}
    BY <1>2, <1>3
  <1>5. x - 1 \in S
    BY <1>1, <1>3, <1>4
  <1> QED BY <1>2, <1>3, <1>5

\* A function defined by recursion up to m exists.
Operations(m, V) == [1..m -> [V -> V]]
Follows(f, b, G, m) == f[0] = b /\ \A k \in 1..m : f[k] = G[k][f[k - 1]]

LEMMA Recursion ==
    ASSUME NEW m \in Nat, NEW V, NEW b \in V, NEW G \in Operations(m, V)
    PROVE  \E f : f \in [0..m -> V] /\ Follows(f, b, G, m)
  <1> USE DEF Operations, Follows
  <1> DEFINE Part(n, g) == g[0] = b /\ \A k \in 1..n : g[k] = G[k][g[k - 1]]
             S == {n \in 0..m : \E g \in [0..n -> V] : Part(n, g)}
  <1>1. 0 \in S
    <2> DEFINE g == [k \in 0..0 |-> b]
    <2>1. g \in [0..0 -> V] /\ Part(0, g)
      OBVIOUS
    <2>2. 0 \in 0..m
      OBVIOUS
    <2> HIDE DEF Part, g
    <2> QED BY <2>1, <2>2
  <1>2. ASSUME NEW n \in 0..m - 1, n \in S
        PROVE  n + 1 \in S
    <2>1. PICK g \in [0..n -> V] : Part(n, g)
      BY <1>2
    <2> DEFINE h == [k \in 0..n + 1 |-> IF k <= n THEN g[k] ELSE G[n + 1][g[n]]]
    <2>2. h \in [0..n + 1 -> V]
      <3>1. g[n] \in V /\ n + 1 \in 1..m
        OBVIOUS
      <3> QED BY <3>1
    <2>3. h[0] = b
      BY <2>1
    <2>4. ASSUME NEW k \in 1..n + 1
          PROVE  h[k] = G[k][h[k - 1]]
      <3>1. CASE k <= n
        <4>1. k \in 1..n /\ k - 1 \in 0..n /\ k \in 0..n + 1 /\ k - 1 \in 0..n + 1
          BY <3>1
        <4>2. h[k] = g[k] /\ h[k - 1] = g[k - 1]
          BY <3>1, <4>1
        <4> QED BY <2>1, <4>1, <4>2
      <3>2. CASE k = n + 1
        BY <3>2
      <3> QED BY <3>1, <3>2
    <2>5. n + 1 \in 0..m
      OBVIOUS
    <2> HIDE DEF h
    <2>6. Part(n + 1, h)
      BY <2>3, <2>4
    <2> HIDE DEF Part
    <2> QED BY <2>2, <2>5, <2>6
  <1>3. m \in S
    <2> HIDE DEF S
    <2>1. 0..m \subseteq S
      BY <1>1, <1>2, UpTo
    <2> QED BY <2>1
  <1> QED BY <1>3

\* What a sweep of the sort goes through.
Follow(f, s, m) == f[0] = s /\ \A j \in 1..m : f[j] = CompareSwap(f[j - 1], j)

LEMMA SweepSteps ==
    ASSUME NEW V, NEW s \in V, NEW m \in Nat, \A r \in V, j \in 1..m : CompareSwap(r, j) \in V
    PROVE  \E f : f \in [0..m -> V] /\ Follow(f, s, m) /\ Sweep(s, m) = f[m]
  <1> DEFINE G == [j \in 1..m |-> [r \in V |-> CompareSwap(r, j)]]
  <1>1. G \in [1..m -> [V -> V]]
    OBVIOUS
  <1>2. \A j \in 1..m, r \in V : G[j][r] = CompareSwap(r, j)
    OBVIOUS
  <1> HIDE DEF G
  <1>3. PICK h \in [0..m -> V] : h[0] = s /\ \A k \in 1..m : h[k] = G[k][h[k - 1]]
    <2>1. G \in Operations(m, V)
      BY <1>1 DEF Operations
    <2>2. PICK h : h \in [0..m -> V] /\ Follows(h, s, G, m)
      BY ONLY <2>1, s \in V, m \in Nat, Recursion
    <2> QED BY <2>2 DEF Follows
  <1>4. h = [j \in 0..m |-> IF j = 0 THEN s ELSE CompareSwap(h[j - 1], j)]
    <2>1. ASSUME NEW j \in 0..m
          PROVE  h[j] = IF j = 0 THEN s ELSE CompareSwap(h[j - 1], j)
      <3>1. CASE j = 0
        BY <1>3, <3>1
      <3>2. CASE j # 0
        <4>1. j \in 1..m /\ h[j - 1] \in V /\ h[j] = G[j][h[j - 1]]
          BY <1>3, <3>2
        <4> QED BY <1>2, <3>2, <4>1
      <3> QED BY <3>1, <3>2
    <2>2. h = [j \in 0..m |-> h[j]]
      OBVIOUS
    <2> QED BY <2>1, <2>2
  <1> DEFINE f[j \in 0..m] == IF j = 0 THEN s ELSE CompareSwap(f[j - 1], j)
  <1>5. f = [j \in 0..m |-> IF j = 0 THEN s ELSE CompareSwap(f[j - 1], j)]
    BY <1>4
  <1>6. Sweep(s, m) = f[m]
    BY DEF Sweep
  <1> HIDE DEF f
  <1>7. f[0] = s /\ \A j \in 1..m : f[j] = CompareSwap(f[j - 1], j)
    BY <1>5
  <1>7a. Follow(f, s, m)
    BY <1>7 DEF Follow
  <1>8. \A j \in 0..m : f[j] \in V
    <2> DEFINE S == {j \in 0..m : f[j] \in V}
    <2>1. 0 \in S
      BY <1>7
    <2>2. \A j \in 0..m - 1 : j \in S => j + 1 \in S
      <3> SUFFICES ASSUME NEW j \in 0..m - 1, f[j] \in V
                   PROVE  f[j + 1] \in V
        OBVIOUS
      <3>1. j + 1 \in 1..m /\ j + 1 - 1 = j
        OBVIOUS
      <3>2. f[j + 1] = CompareSwap(f[j], j + 1)
        BY <1>7, <3>1
      <3> QED BY <3>1, <3>2
    <2> HIDE DEF S
    <2>3. 0..m \subseteq S
      BY <2>1, <2>2, UpTo
    <2> QED BY <2>3 DEF S
  <1>9. f \in [0..m -> V]
    BY <1>5, <1>8
  <1> QED BY <1>6, <1>9, <1>7a

----------------------------------------------------------------------------
(***************************************************************************)
(* The clock.                                                              *)
(***************************************************************************)
\* Division with a remainder.
LEMMA Division ==
    ASSUME NEW n \in Nat \ {0}, NEW x \in Int
    PROVE  \E q \in Int, r \in 0..n - 1 : x = n * q + r /\ r = x % n
  <1>1. x % n \in 0..n - 1 /\ x \div n \in Int
    OBVIOUS
  <1>2. x = n * (x \div n) + (x % n)
    OBVIOUS
  <1> QED BY <1>1, <1>2

\* The remainder is unique.
LEMMA Remainder ==
    ASSUME NEW n \in Nat \ {0}, NEW q \in Int, NEW r \in 0..n - 1
    PROVE  (n * q + r) % n = r
  <1>1. PICK p \in Int, t \in 0..n - 1 : n * q + r = n * p + t /\ t = (n * q + r) % n
    <2>1. n * q + r \in Int
      OBVIOUS
    <2> QED BY ONLY <2>1, n \in Nat \ {0}, Division
  <1>2. n * (p - q) = r - t
    BY <1>1
  <1>3. CASE p > q
    <2>1. n * (p - q) >= n
      BY <1>3
    <2> QED BY <2>1, <1>2
  <1>4. CASE p < q
    <2>1. n * (q - p) >= n
      BY <1>4
    <2>2. n * (p - q) = - (n * (q - p))
      OBVIOUS
    <2> QED BY <2>1, <2>2, <1>2
  <1> QED BY <1>1, <1>3, <1>4

\* A number that is at most one turn off.
LEMMA Turn ==
    ASSUME NEW n \in Nat \ {0}, NEW x \in Int
    PROVE  /\ x % n \in 0..n - 1
           /\ 0 <= x /\ x < n => x % n = x
           /\ n <= x /\ x < 2 * n => x % n = x - n
           /\ -n <= x /\ x < 0 => x % n = x + n
  <1>1. x % n \in 0..n - 1 /\ (0 <= x /\ x < n => x % n = x)
    OBVIOUS
  <1>2. n <= x /\ x < 2 * n => x % n = x - n
    BY Remainder
  <1>3. -n <= x /\ x < 0 => x % n = x + n
    BY Remainder
  <1> QED BY <1>1, <1>2, <1>3

\* x modulo n, for what counts around.
Mod(x, n) == x % n

LEMMA ModIs ==
    \A n \in Nat \ {0} : \A x \in -n..2 * n - 1 :
        Mod(x, n) = IF x < 0 THEN x + n ELSE IF x < n THEN x ELSE x - n
  <1> SUFFICES ASSUME NEW n \in Nat \ {0}, NEW x \in -n..2 * n - 1
               PROVE  Mod(x, n) = IF x < 0 THEN x + n ELSE IF x < n THEN x ELSE x - n
    OBVIOUS
  <1>1. x \in Int /\ -n <= x /\ x < 2 * n
    OBVIOUS
  <1>2. /\ 0 <= x /\ x < n => Mod(x, n) = x
        /\ n <= x /\ x < 2 * n => Mod(x, n) = x - n
        /\ -n <= x /\ x < 0 => Mod(x, n) = x + n
    BY ONLY <1>1, n \in Nat \ {0}, Turn DEF Mod
  <1> QED BY <1>1, <1>2

Quarter == Period \div 4

LEMMA Clock ==
    /\ Period \in Nat \ {0} /\ Quarter \in Nat \ {0} /\ Period = 4 * Quarter
    /\ Period \div 2 = 2 * Quarter /\ Time = 0..Period - 1
    /\ MaxTimerNum \in Nat \ {0} /\ Pre \in Nat \ {0} /\ Post \in Nat \ {0} /\ Gap \in Nat \ {0}
    /\ (MaxTimerNum + 1) * Gap + Pre < Post /\ Post < Quarter
    /\ \A d \in Interval : d \in Nat \ {0} /\ d + Post <= Quarter
  <1>1. /\ Period \in Nat \ {0} /\ Period % 4 = 0
    BY TimerAssumption
  <1>2. Period = 4 * (Period \div 4) /\ Period \div 4 \in Nat \ {0}
    BY <1>1
  <1>3. Period \div 2 = 2 * (Period \div 4)
    BY <1>1, <1>2
  <1> QED BY <1>1, <1>2, <1>3, TimerAssumption DEF Quarter, Time

\* Times are compared by the way that is left from one to the other.
LEMMA SpanIs ==
    ASSUME NEW s \in Time, NEW t \in Time
    PROVE  /\ Span(s, t) = IF t < s THEN t - s + Period ELSE t - s
           /\ Distance(s, t) \in -(2 * Quarter)..2 * Quarter - 1
           /\ Distance(s, t) = IF t - s < -(2 * Quarter) THEN t - s + Period
                               ELSE IF t - s < 2 * Quarter THEN t - s ELSE t - s - Period
  <1>1. /\ Period \in Nat \ {0} /\ Quarter \in Nat \ {0} /\ Period = 4 * Quarter
        /\ Period \div 2 = 2 * Quarter /\ s \in 0..Period - 1 /\ t \in 0..Period - 1
    BY Clock
  <1>2. Span(s, t) = Mod(t - s, Period)
    BY DEF Span, Mod
  <1>3. Span(s, t) = IF t < s THEN t - s + Period ELSE t - s
    BY <1>1, <1>2, ModIs
  <1>4. Distance(s, t) = IF Span(s, t) < 2 * Quarter THEN Span(s, t) ELSE Span(s, t) - Period
    BY <1>1 DEF Distance
  <1> HIDE DEF Quarter
  <1> QED BY <1>1, <1>3, <1>4

LEMMA TurnsOff ==
    ASSUME NEW s \in Time, NEW t \in Time
    PROVE  \E d \in {-Period, 0, Period} : t = s + Distance(s, t) + d
  <1>1. /\ Period \in Nat \ {0} /\ Quarter \in Nat \ {0} /\ s \in 0..Period - 1 /\ t \in 0..Period - 1
        /\ Distance(s, t) = IF t - s < -(2 * Quarter) THEN t - s + Period
                            ELSE IF t - s < 2 * Quarter THEN t - s ELSE t - s - Period
    BY Clock, SpanIs
  <1> QED BY <1>1

\* The clock goes on by n ticks.
LEMMA Later ==
    ASSUME NEW s \in Time, NEW t \in Time, NEW n \in 0..Quarter, NEW u, u = (s + n) % Period
    PROVE  /\ u \in Time
           /\ Distance(s, t) \in -Quarter..Quarter => Distance(u, t) = Distance(s, t) - n
           /\ Distance(u, t) \in -Quarter..Quarter - 1 => Distance(s, t) = Distance(u, t) + n
  <1>1. /\ Period \in Nat \ {0} /\ Quarter \in Nat \ {0} /\ Period = 4 * Quarter
        /\ s \in 0..Period - 1 /\ t \in 0..Period - 1 /\ Time = 0..Period - 1
    BY Clock
  <1> HIDE DEF Quarter
  <1>2. u = IF s + n < Period THEN s + n ELSE s + n - Period
    <2>1. u = Mod(s + n, Period)
      BY DEF Mod
    <2> QED BY <1>1, <2>1, ModIs
  <1>3. u \in Time
    BY <1>1, <1>2
  <1>4. /\ Distance(s, t) = IF t - s < -(2 * Quarter) THEN t - s + Period
                            ELSE IF t - s < 2 * Quarter THEN t - s ELSE t - s - Period
        /\ Distance(u, t) = IF t - u < -(2 * Quarter) THEN t - u + Period
                            ELSE IF t - u < 2 * Quarter THEN t - u ELSE t - u - Period
    BY <1>3, SpanIs
  <1>5. CASE s + n < Period
    <2>1. t - u = t - s - n
      BY <1>1, <1>2, <1>5
    <2> QED BY <1>1, <1>3, <1>4, <1>5, <2>1
  <1>6. CASE s + n >= Period
    <2>1. t - u = t - s - n + Period
      BY <1>1, <1>2, <1>6
    <2> QED BY <1>1, <1>3, <1>4, <1>6, <2>1
  <1> QED BY <1>1, <1>5, <1>6

\* A time that is set n ticks ahead.
LEMMA SetAhead ==
    ASSUME NEW s \in Time, NEW n \in 0..Quarter, NEW t, t = (s + n) % Period
    PROVE  t \in Time /\ Distance(s, t) = n
  <1>1. /\ Period \in Nat \ {0} /\ Quarter \in Nat \ {0} /\ Period = 4 * Quarter
        /\ s \in 0..Period - 1 /\ Time = 0..Period - 1
    BY Clock
  <1> HIDE DEF Quarter
  <1>2. t = IF s + n < Period THEN s + n ELSE s + n - Period
    <2>1. t = Mod(s + n, Period)
      BY DEF Mod
    <2> QED BY <1>1, <2>1, ModIs
  <1>3. t \in Time
    BY <1>1, <1>2
  <1>4. Distance(s, t) = IF t - s < -(2 * Quarter) THEN t - s + Period
                         ELSE IF t - s < 2 * Quarter THEN t - s ELSE t - s - Period
    BY <1>3, SpanIs
  <1> QED BY <1>1, <1>2, <1>3, <1>4

\* What TIME_COMPARE_BIG says of times that are not too far from the clock.
LEMMA Compare ==
    ASSUME NEW c \in Time, NEW s \in Time, NEW t \in Time,
           Distance(c, s) \in 1 - Post..Quarter - Post, Distance(c, t) \in 1 - Post..Quarter - Post
    PROVE  TimeCompareBig(s, t) <=> Distance(c, s) >= Distance(c, t)
  <1>1. /\ Period \in Nat \ {0} /\ Quarter \in Nat \ {0} /\ Period = 4 * Quarter
        /\ s \in 0..Period - 1 /\ t \in 0..Period - 1 /\ c \in 0..Period - 1
        /\ Post \in Nat \ {0} /\ Post < Quarter
    BY Clock
  <1>2. TimeCompareBig(s, t) <=> Span(t, s) < Quarter
    BY DEF TimeCompareBig, Quarter
  <1> HIDE DEF Quarter
  <1>3. Span(t, s) = IF s < t THEN s - t + Period ELSE s - t
    BY SpanIs
  <1>4. PICK a \in 1 - Post..Quarter - Post, d \in {-Period, 0, Period} :
            a = Distance(c, s) /\ s = c + a + d
    BY <1>1, TurnsOff
  <1>5. PICK b \in 1 - Post..Quarter - Post, e \in {-Period, 0, Period} :
            b = Distance(c, t) /\ t = c + b + e
    BY <1>1, TurnsOff
  <1>6. Span(t, s) < Quarter <=> a >= b
    <2>1. s - t = a - b + (d - e) /\ a - b \in 1 - Quarter..Quarter - 1
      BY <1>1, <1>4, <1>5
    <2>2. CASE a >= b
      BY <1>1, <1>3, <2>1, <2>2
    <2>3. CASE a < b
      BY <1>1, <1>3, <2>1, <2>3
    <2> QED BY <1>1, <2>2, <2>3
  <1> QED BY <1>2, <1>4, <1>5, <1>6

\* What blt_is_timer_expired says of a timer that is not too late.
LEMMA Expired ==
    ASSUME NEW c \in Time, NEW t \in Time, Distance(c, t) + Post \in Pre + 1..2 * Quarter
    PROVE  /\ IsTimerExpired(t, c) <=> Distance(c, t) <= Pre
           /\ Distance(t, c + Pre) < Post
  <1>1. /\ Period \in Nat \ {0} /\ Quarter \in Nat \ {0} /\ Period = 4 * Quarter
        /\ t \in 0..Period - 1 /\ c \in 0..Period - 1 /\ Period \div 2 = 2 * Quarter
        /\ Post \in Nat \ {0} /\ Post < Quarter /\ Pre \in Nat \ {0}
    BY Clock
  <1>2. Pre < Post
    <2>1. (MaxTimerNum + 1) * Gap + Pre < Post /\ (MaxTimerNum + 1) * Gap \in Nat
      BY Clock
    <2> QED BY <1>1, <2>1
  <1> HIDE DEF Quarter
  <1>3. Distance(c, t) = IF t - c < -(2 * Quarter) THEN t - c + Period
                         ELSE IF t - c < 2 * Quarter THEN t - c ELSE t - c - Period
    BY SpanIs
  <1>4. Span(t, c + Pre) = LET x == c + Pre - t
                           IN  IF x < 0 THEN x + Period ELSE IF x < Period THEN x ELSE x - Period
    <2>1. Span(t, c + Pre) = Mod((c + Pre) - t, Period) /\ (c + Pre) - t = c + Pre - t
      BY <1>1 DEF Span, Mod
    <2>2. c + Pre - t \in -Period..2 * Period - 1
      BY <1>1, <1>2
    <2> QED BY <1>1, <2>1, <2>2, ModIs
  <1>5. IsTimerExpired(t, c) <=> Span(t, c + Pre) < Post
    BY DEF IsTimerExpired
  <1>6. Distance(t, c + Pre) = IF Span(t, c + Pre) < 2 * Quarter THEN Span(t, c + Pre)
                               ELSE Span(t, c + Pre) - Period
    BY <1>1 DEF Distance
  <1>7. Distance(c, t) \in Int /\ Distance(c, t) > Pre - Post /\ Distance(c, t) <= 2 * Quarter - Post
    BY <1>1, SpanIs
  <1> QED BY <1>1, <1>2, <1>3, <1>4, <1>5, <1>6, <1>7

----------------------------------------------------------------------------
(***************************************************************************)
(* The sort.                                                               *)
(***************************************************************************)
\* How late the timer at k may be when it was passed over by calls before: the
\* nearer to the front of the table, the more of them.
Allow(k) == (MaxTimerNum - k) * Gap

\* At time c, u ticks after the last call.
InTime(c, u, t, k) == Distance(c, t) \in -(Allow(k) + u)..Quarter - Post

Tables(c, u, n) == {s \in [1..n -> Timers] : \A k \in 1..n : InTime(c, u, s[k].t, k)}

Left(c, s, k) == Distance(c, s[k].t)

LEMMA AllowIs ==
    /\ \A k \in 0..MaxTimerNum : Allow(k) \in Nat /\ Allow(k) + Gap + Pre < Post
    /\ \A k \in 1..MaxTimerNum : Allow(k - 1) = Allow(k) + Gap
  <1>1. MaxTimerNum \in Nat /\ Gap \in Nat /\ Pre \in Nat /\ Post \in Nat
        /\ (MaxTimerNum + 1) * Gap + Pre < Post
    BY Clock
  <1>2. ASSUME NEW k \in 0..MaxTimerNum
        PROVE  Allow(k) \in Nat /\ Allow(k) + Gap + Pre < Post
    <2>1. Allow(k) \in Nat /\ k * Gap \in Nat
      BY <1>1 DEF Allow
    <2>2. (MaxTimerNum + 1) * Gap = Allow(k) + k * Gap + Gap
      BY ONLY <1>1, k \in 0..MaxTimerNum DEF Allow
    <2> QED BY <1>1, <2>1, <2>2
  <1>3. ASSUME NEW k \in 1..MaxTimerNum
        PROVE  Allow(k - 1) = Allow(k) + Gap
    BY ONLY <1>1, k \in 1..MaxTimerNum DEF Allow
  <1> QED BY <1>2, <1>3

\* One comparison puts two neighbours in order and leaves the others.
LEMMA SwapStep ==
    ASSUME NEW c \in Time, NEW u \in 0..Gap, NEW n \in 1..MaxTimerNum, NEW s \in Tables(c, u, n),
           NEW j \in 1..n - 1, NEW q, q = CompareSwap(s, j)
    PROVE  /\ q \in Tables(c, u, n) /\ Left(c, q, j) <= Left(c, q, j + 1)
           /\ \A k \in 1..n : k \notin {j, j + 1} => q[k] = s[k]
           /\ \/ q = s
              \/ q[j] = s[j + 1] /\ q[j + 1] = s[j]
  <1>1. /\ s \in [1..n -> Timers] /\ \A k \in 1..n : InTime(c, u, s[k].t, k)
        /\ n \in Nat /\ MaxTimerNum \in Nat /\ j \in 1..n /\ j + 1 \in 1..n /\ Gap \in Nat
        /\ j \in 1..MaxTimerNum /\ j + 1 \in 1..MaxTimerNum /\ j # j + 1 /\ j + 1 - 1 = j
    BY Clock DEF Tables
  <1>2. Allow(j) = Allow(j + 1) + Gap /\ Allow(j + 1) \in Nat /\ Allow(j) + Gap + Pre < Post
    BY <1>1, AllowIs
  <1>3. /\ s[j].t \in Time /\ s[j + 1].t \in Time
        /\ Left(c, s, j) \in -(Allow(j) + u)..Quarter - Post
        /\ Left(c, s, j + 1) \in -(Allow(j + 1) + u)..Quarter - Post
    BY <1>1 DEF Timers, InTime, Left
  <1>4. /\ Quarter \in Nat /\ Post \in Nat /\ Pre \in Nat
    BY Clock
  <1> HIDE DEF Quarter, Allow, Time
  <1>5. Left(c, s, j) \in 1 - Post..Quarter - Post /\ Left(c, s, j + 1) \in 1 - Post..Quarter - Post
    <2>1. /\ -(Allow(j) + u) >= 1 - Post /\ -(Allow(j + 1) + u) >= 1 - Post
          /\ -(Allow(j) + u) \in Int /\ -(Allow(j + 1) + u) \in Int
      <3>1. Gap \in Nat /\ u \in 0..Gap
        BY <1>1
      <3> QED BY ONLY <1>2, <1>4, <3>1
    <2> HIDE DEF Left
    <2> QED BY ONLY <1>3, <1>4, <2>1
  <1>6. TimeCompareBig(s[j].t, s[j + 1].t) <=> Left(c, s, j) >= Left(c, s, j + 1)
    BY <1>3, <1>5, Compare DEF Left
  <1>7. CASE TimeCompareBig(s[j].t, s[j + 1].t)
    <2>1. q = [s EXCEPT ![j] = s[j + 1], ![j + 1] = s[j]]
      BY <1>7 DEF CompareSwap
    <2>2. /\ q \in [1..n -> Timers] /\ q[j] = s[j + 1] /\ q[j + 1] = s[j]
          /\ \A k \in 1..n : k \notin {j, j + 1} => q[k] = s[k]
      BY <1>1, <2>1
    <2>3. Left(c, q, j) = Left(c, s, j + 1) /\ Left(c, q, j + 1) = Left(c, s, j)
      BY <2>2 DEF Left
    <2>4. /\ Left(c, q, j) \in -(Allow(j) + u)..Quarter - Post
          /\ Left(c, q, j + 1) \in -(Allow(j + 1) + u)..Quarter - Post
      BY <1>1, <1>2, <1>3, <1>6, <1>7, <2>3
    <2>5. \A k \in 1..n : InTime(c, u, q[k].t, k)
      BY <1>1, <2>2, <2>4 DEF InTime, Left
    <2>6. Left(c, q, j) <= Left(c, q, j + 1)
      BY <1>3, <1>6, <1>7, <2>3
    <2> QED BY <2>2, <2>5, <2>6 DEF Tables
  <1>8. CASE ~TimeCompareBig(s[j].t, s[j + 1].t)
    <2>1. q = s
      BY <1>8 DEF CompareSwap
    <2>2. Left(c, s, j) <= Left(c, s, j + 1)
      BY <1>3, <1>6, <1>8
    <2> QED BY <2>1, <2>2
  <1> QED BY <1>7, <1>8

\* The timers behind m are in order, and not before those in front of them.
Settled(c, s, n, m) == \A j, k \in 1..n : j < k /\ m < k => Left(c, s, j) <= Left(c, s, k)

\* A sweep goes from table to table.
LEMMA SweepTables ==
    ASSUME NEW c \in Time, NEW u \in 0..Gap, NEW n \in 1..MaxTimerNum, NEW s \in Tables(c, u, n),
           NEW m \in 1..n - 1
    PROVE  \E f : /\ f \in [0..m -> Tables(c, u, n)] /\ Follow(f, s, m)
                  /\ Sweep(s, m) = f[m] /\ f[m] \in Tables(c, u, n)
  <1>1. n \in Nat /\ m \in Nat /\ m < n /\ MaxTimerNum \in Nat
    BY Clock
  <1> DEFINE V == Tables(c, u, n)
  <1>2. \A r \in V, j \in 1..m : CompareSwap(r, j) \in V
    BY <1>1, SwapStep
  <1>3. s \in V /\ m \in Nat /\ m \in 0..m
    BY <1>1
  <1> HIDE DEF V
  <1>4. \E f : f \in [0..m -> V] /\ Follow(f, s, m) /\ Sweep(s, m) = f[m]
    BY ONLY <1>2, <1>3, SweepSteps
  <1> QED BY <1>3, <1>4 DEF V

\* A sweep over the first m pairs settles one more timer.
LEMMA SweepSettles ==
    ASSUME NEW c \in Time, NEW u \in 0..Gap, NEW n \in 1..MaxTimerNum, NEW s \in Tables(c, u, n),
           NEW m \in 1..n - 1, Settled(c, s, n, m + 1)
    PROVE  Sweep(s, m) \in Tables(c, u, n) /\ Settled(c, Sweep(s, m), n, m)
  <1>1. n \in Nat /\ m \in Nat /\ m < n /\ MaxTimerNum \in Nat
    BY Clock
  <1> DEFINE V == Tables(c, u, n)
  <1>3. PICK f \in [0..m -> V] : /\ f[0] = s /\ \A j \in 1..m : f[j] = CompareSwap(f[j - 1], j)
                                 /\ Sweep(s, m) = f[m]
    BY SweepTables DEF Follow
  <1>4. \A j \in 0..m, k \in 1..n : Left(c, f[j], k) \in Int
    <2>1. ASSUME NEW r \in V, NEW k \in 1..n
          PROVE  Left(c, r, k) \in Int
      BY SpanIs DEF Tables, Timers, Left
    <2> QED BY <2>1
  <1> DEFINE Swept(j) == /\ Settled(c, f[j], n, m + 1)
                         /\ \A k \in 1..j + 1 : Left(c, f[j], k) <= Left(c, f[j], j + 1)
             S == {j \in 0..m : Swept(j)}
  <1>5. 0 \in S
    BY <1>1, <1>3, <1>4
  <1>6. ASSUME NEW j \in 0..m - 1, j \in S
        PROVE  j + 1 \in S
    <2>1. /\ j \in Nat /\ j + 1 \in 1..m /\ j + 1 \in 1..n - 1 /\ j + 1 + 1 = j + 2
          /\ j + 1 \in 1..n /\ j + 2 \in 1..n /\ j + 1 - 1 = j /\ j \in 0..m /\ j + 1 \in 0..m
      BY <1>1
    <2> DEFINE r == f[j]
               q == f[j + 1]
    <2>2. r \in V /\ q = CompareSwap(r, j + 1)
      BY <1>3, <2>1
    <2>3. /\ Left(c, q, j + 1) <= Left(c, q, j + 2)
          /\ \A k \in 1..n : k \notin {j + 1, j + 2} => q[k] = r[k]
          /\ \/ q = r
             \/ q[j + 1] = r[j + 2] /\ q[j + 2] = r[j + 1]
      BY <2>1, <2>2, SwapStep
    <2>4. Swept(j)
      BY <1>6
    <2>5. \A k \in 1..n : Left(c, q, k) \in Int /\ Left(c, r, k) \in Int
      BY <1>4, <2>1
    <2>6. /\ \A k \in 1..n : k \notin {j + 1, j + 2} => Left(c, q, k) = Left(c, r, k)
          /\ \/ \A k \in 1..n : Left(c, q, k) = Left(c, r, k)
             \/ /\ Left(c, q, j + 1) = Left(c, r, j + 2)
                /\ Left(c, q, j + 2) = Left(c, r, j + 1)
      BY <2>3 DEF Left
    <2> HIDE DEF q, r, S, V
    <2>7. Settled(c, q, n, m + 1)
      <3> SUFFICES ASSUME NEW x \in 1..n, NEW y \in 1..n, x < y, m + 1 < y
                   PROVE  Left(c, q, x) <= Left(c, q, y)
        BY DEF Settled
      <3>1. y \notin {j + 1, j + 2} /\ j + 1 < y /\ j + 2 < y
        BY <1>1, <2>1
      <3>2. \A k \in 1..n : k < y => Left(c, r, k) <= Left(c, r, y)
        BY <2>4 DEF Settled, r
      <3>3. Left(c, q, y) = Left(c, r, y)
        BY <2>6, <3>1
      <3>4. PICK z \in 1..n : z < y /\ Left(c, q, x) = Left(c, r, z)
        BY <2>1, <2>6, <3>1
      <3> QED BY <3>2, <3>3, <3>4
    <2>8. \A k \in 1..j + 2 : Left(c, q, k) <= Left(c, q, j + 2)
      <3>1. \A k \in 1..j + 1 : Left(c, r, k) <= Left(c, r, j + 1)
        BY <2>4 DEF r
      <3>2. ASSUME NEW k \in 1..j
            PROVE  Left(c, q, k) <= Left(c, q, j + 2)
        <4>1. k \in 1..n /\ k \in 1..j + 1 /\ k \notin {j + 1, j + 2} /\ j + 1 \in 1..j + 1
          BY <2>1
        <4>2. Left(c, q, k) = Left(c, r, k) /\ Left(c, r, k) <= Left(c, r, j + 1)
          BY <2>6, <3>1, <4>1
        <4>3. Left(c, q, j + 2) = Left(c, r, j + 1) \/ Left(c, q, j + 1) = Left(c, r, j + 1)
          BY <2>1, <2>6
        <4> QED BY <2>1, <2>3, <2>5, <4>1, <4>2, <4>3
      <3>3. \A k \in 1..j + 2 : k \in 1..j \/ k = j + 1 \/ k = j + 2
        BY <2>1
      <3>4. Left(c, q, j + 2) <= Left(c, q, j + 2) /\ Left(c, q, j + 1) <= Left(c, q, j + 2)
        BY <2>1, <2>3, <2>5
      <3> QED BY <3>2, <3>3, <3>4
    <2>9. Swept(j + 1)
      BY <2>1, <2>7, <2>8 DEF q
    <2> HIDE DEF Swept
    <2> QED BY <2>1, <2>9 DEF S
  <1>7. m \in S
    <2> HIDE DEF S
    <2>1. 0..m \subseteq S
      BY <1>1, <1>5, <1>6, UpTo
    <2> QED BY <1>1, <2>1
  <1>8. Settled(c, f[m], n, m)
    <2> SUFFICES ASSUME NEW x \in 1..n, NEW y \in 1..n, x < y, m < y
                 PROVE  Left(c, f[m], x) <= Left(c, f[m], y)
      BY DEF Settled
    <2>1. CASE y = m + 1
      BY <1>1, <1>7, <2>1
    <2>2. CASE y # m + 1
      BY <1>1, <1>7, <2>2 DEF Settled
    <2> QED BY <2>1, <2>2
  <1>9. f[m] \in V
    BY <1>1
  <1> QED BY <1>3, <1>8, <1>9

LEMMA TableSeq ==
    ASSUME NEW n \in Nat, NEW s \in [1..n -> Timers]
    PROVE  s \in Seq(Timers) /\ Len(s) = n /\ DOMAIN s = 1..n
  OBVIOUS

\* What the sort goes through.
Rounds(f, s, n) == f[0] = s /\ \A k \in 1..n - 1 : f[k] = Sweep(f[k - 1], n - k)

LEMMA SortSteps ==
    ASSUME NEW V, NEW s \in V, NEW n \in Nat \ {0}, Len(s) = n,
           \A r \in V, k \in 1..n - 1 : Sweep(r, n - k) \in V
    PROVE  \E f : f \in [0..n - 1 -> V] /\ Rounds(f, s, n) /\ SortTimers(s) = f[n - 1]
  <1> DEFINE G == [k \in 1..n - 1 |-> [r \in V |-> Sweep(r, n - k)]]
             m == n - 1
  <1>1. G \in [1..m -> [V -> V]] /\ m \in Nat
    OBVIOUS
  <1>2. \A k \in 1..m, r \in V : G[k][r] = Sweep(r, n - k)
    OBVIOUS
  <1> HIDE DEF G
  <1>3. PICK h \in [0..m -> V] : h[0] = s /\ \A k \in 1..m : h[k] = G[k][h[k - 1]]
    <2>1. G \in Operations(m, V)
      BY <1>1 DEF Operations
    <2> HIDE DEF m
    <2>2. PICK h : h \in [0..m -> V] /\ Follows(h, s, G, m)
      BY ONLY <1>1, <2>1, s \in V, Recursion
    <2> QED BY <2>2 DEF Follows
  <1>4. h = [k \in 0..m |-> IF k = 0 THEN s ELSE Sweep(h[k - 1], n - k)]
    <2>1. ASSUME NEW k \in 0..m
          PROVE  h[k] = IF k = 0 THEN s ELSE Sweep(h[k - 1], n - k)
      <3>1. CASE k = 0
        BY <1>3, <3>1
      <3>2. CASE k # 0
        <4>1. k \in 1..m /\ h[k - 1] \in V /\ h[k] = G[k][h[k - 1]]
          BY <1>3, <3>2
        <4> QED BY <1>2, <3>2, <4>1
      <3> QED BY <3>1, <3>2
    <2>2. h = [k \in 0..m |-> h[k]]
      OBVIOUS
    <2> QED BY <2>1, <2>2
  <1> DEFINE f[k \in 0..m] == IF k = 0 THEN s ELSE Sweep(f[k - 1], n - k)
  <1>5. f = [k \in 0..m |-> IF k = 0 THEN s ELSE Sweep(f[k - 1], n - k)]
    BY <1>4
  <1>6. SortTimers(s) = f[m]
    BY DEF SortTimers
  <1> HIDE DEF f
  <1>7. f[0] = s /\ \A k \in 1..m : f[k] = Sweep(f[k - 1], n - k)
    BY <1>5
  <1>8. \A k \in 0..m : f[k] \in V
    <2> DEFINE S == {k \in 0..m : f[k] \in V}
    <2>1. 0 \in S
      BY <1>7
    <2>2. \A k \in 0..m - 1 : k \in S => k + 1 \in S
      <3> SUFFICES ASSUME NEW k \in 0..m - 1, f[k] \in V
                   PROVE  f[k + 1] \in V
        OBVIOUS
      <3>1. k + 1 \in 1..n - 1 /\ k + 1 - 1 = k
        OBVIOUS
      <3>2. f[k + 1] = Sweep(f[k], n - (k + 1))
        BY <1>7, <3>1
      <3> QED BY <3>1, <3>2
    <2> HIDE DEF S
    <2>3. 0..m \subseteq S
      BY <1>1, <2>1, <2>2, UpTo
    <2> QED BY <2>3 DEF S
  <1>9. f \in [0..m -> V]
    BY <1>5, <1>8
  <1>7a. Rounds(f, s, n)
    BY <1>7 DEF Rounds
  <1> QED BY <1>6, <1>9, <1>7a

\* The bubble sort orders the table by the time that is left.
LEMMA Sorted ==
    ASSUME NEW c \in Time, NEW u \in 0..Gap, NEW n \in 1..MaxTimerNum, NEW s \in Tables(c, u, n)
    PROVE  SortTimers(s) \in Tables(c, u, n) /\ Settled(c, SortTimers(s), n, 0)
  <1> DEFINE V == Tables(c, u, n)
  <1>1. /\ n \in Nat \ {0} /\ MaxTimerNum \in Nat /\ s \in [1..n -> Timers] /\ s \in V
    BY Clock DEF Tables
  <1>2. Len(s) = n
    BY <1>1, TableSeq
  <1>3. \A r \in V, k \in 1..n - 1 : n - k \in 1..n - 1 /\ Sweep(r, n - k) \in V
    <2> SUFFICES ASSUME NEW r \in V, NEW k \in 1..n - 1
                 PROVE  n - k \in 1..n - 1 /\ Sweep(r, n - k) \in V
      OBVIOUS
    <2>1. n - k \in 1..n - 1
      BY <1>1
    <2> QED BY <2>1, SweepTables
  <1>4. PICK f : f \in [0..n - 1 -> V] /\ Rounds(f, s, n) /\ SortTimers(s) = f[n - 1]
    <2> HIDE DEF V
    <2> QED BY ONLY <1>1, <1>2, <1>3, SortSteps
  <1> DEFINE S == {k \in 0..n - 1 : Settled(c, f[k], n, n - k)}
  <1>5. 0 \in S
    BY <1>1 DEF Settled
  <1>6. ASSUME NEW k \in 0..n - 1 - 1, k \in S
        PROVE  k + 1 \in S
    <2>1. /\ k + 1 \in 1..n - 1 /\ k + 1 - 1 = k /\ n - (k + 1) \in 1..n - 1 /\ k + 1 \in 0..n - 1
          /\ n - (k + 1) + 1 = n - k
      BY <1>1
    <2>2. f[k + 1] = Sweep(f[k], n - (k + 1)) /\ f[k] \in V
      BY <1>4, <2>1 DEF Rounds
    <2>3. Settled(c, f[k], n, n - (k + 1) + 1)
      BY <1>6, <2>1
    <2>4. Settled(c, f[k + 1], n, n - (k + 1))
      BY <2>1, <2>2, <2>3, SweepSettles
    <2> QED BY <2>1, <2>4
  <1>7. n - 1 \in S
    <2>1. n - 1 \in Nat
      BY <1>1
    <2> HIDE DEF S
    <2>2. 0..n - 1 \subseteq S
      BY <1>5, <1>6, <2>1, UpTo
    <2> QED BY <2>1, <2>2
  <1>8. Settled(c, f[n - 1], n, 0)
    <2>1. n - (n - 1) = 1
      BY <1>1
    <2> QED BY <1>7, <2>1 DEF Settled
  <1>9. f[n - 1] \in V
    BY <1>1, <1>4
  <1> QED BY <1>4, <1>8, <1>9

----------------------------------------------------------------------------
(***************************************************************************)
(* The invariant.                                                          *)
(***************************************************************************)
\* A timer the loop has not come to may be late by one more call.
Position(k) == IF 0 < i /\ i <= k THEN k - 1 ELSE k

\* No timer is later than the calls that passed over it, nor too far ahead.
TimeInv == \A k \in DOMAIN timer : InTime(clock, since, timer[k].t, Position(k))

\* The table is in order until a callback sets a new time.
OrderInv ==
    i = 0 \/ ~changed =>
        \A j, k \in DOMAIN timer : j < k => Left(clock, timer, j) <= Left(clock, timer, k)

\* The loop works with the time of its call.
LoopInv == i > 0 => clock = (now + since) % Period

IInv == TypeOK /\ TimeInv /\ OrderInv /\ LoopInv

\* The table as a function, and the numbers.
LEMMA Table ==
    ASSUME TypeOK
    PROVE  \E n \in 0..MaxTimerNum :
               /\ n = Len(timer) /\ timer \in [1..n -> Timers] /\ DOMAIN timer = 1..n
               /\ timer = <<>> <=> n = 0
  <1>1. timer \in Seq(Timers) /\ Len(timer) <= MaxTimerNum /\ MaxTimerNum \in Nat
    BY Clock DEF TypeOK
  <1>2. Len(timer) \in 0..MaxTimerNum
    BY <1>1
  <1>3. timer \in [1..Len(timer) -> Timers] /\ DOMAIN timer = 1..Len(timer)
    BY <1>1
  <1>4. timer = <<>> <=> Len(timer) = 0
    BY <1>1
  <1> QED BY <1>2, <1>3, <1>4

\* A table of at most MaxTimerNum timers is one.
LEMMA TableOK ==
    ASSUME NEW n \in 0..MaxTimerNum, NEW s \in [1..n -> Timers]
    PROVE  s \in Seq(Timers) /\ Len(s) <= MaxTimerNum /\ Len(s) = n /\ DOMAIN s = 1..n
  <1>1. n \in Nat /\ n <= MaxTimerNum
    BY Clock
  <1> QED BY <1>1, TableSeq

\* What may be late at k may be so at k - 1.
LEMMA NearerInTime ==
    ASSUME NEW c \in Time, NEW u \in 0..Gap, NEW t \in Time, NEW k \in 1..MaxTimerNum,
           InTime(c, u, t, k)
    PROVE  InTime(c, u, t, k - 1)
  <1>1. Allow(k - 1) = Allow(k) + Gap /\ Allow(k) \in Nat /\ Gap \in Nat /\ Quarter \in Nat /\ Post \in Nat
    BY AllowIs, Clock
  <1>2. Distance(c, t) \in -(Allow(k) + u)..Quarter - Post
    BY DEF InTime
  <1> HIDE DEF Allow, Quarter
  <1>3. -(Allow(k - 1) + u) <= -(Allow(k) + u) /\ -(Allow(k - 1) + u) \in Int
        /\ -(Allow(k) + u) \in Int /\ Quarter - Post \in Int
    BY ONLY <1>1, u \in 0..Gap
  <1>4. Distance(c, t) \in -(Allow(k - 1) + u)..Quarter - Post
    BY ONLY <1>2, <1>3
  <1> QED BY <1>4 DEF InTime

\* Times in time are near enough to the clock to be compared.
LEMMA Near ==
    ASSUME NEW c \in Time, NEW u \in 0..Gap, NEW t \in Time, NEW k \in 0..MaxTimerNum,
           InTime(c, u, t, k)
    PROVE  /\ Distance(c, t) \in Int /\ Distance(c, t) >= -(Allow(k) + u) /\ Allow(k) + u \in Nat
           /\ Distance(c, t) \in 1 - Post..Quarter - Post
           /\ Distance(c, t) + Post \in Pre + 1..2 * Quarter
           /\ Distance(c, t) \in -Quarter..Quarter - 1 /\ Distance(c, t) \in -Quarter..Quarter
  <1>1. /\ Allow(k) \in Nat /\ Allow(k) + Gap + Pre < Post /\ Gap \in Nat /\ Quarter \in Nat
        /\ Post \in Nat \ {0} /\ Pre \in Nat \ {0} /\ Post < Quarter
    BY AllowIs, Clock
  <1>2. Distance(c, t) \in -(Allow(k) + u)..Quarter - Post
    BY DEF InTime
  <1> HIDE DEF Allow, Quarter
  <1>3. -(Allow(k) + u) \in Int /\ -(Allow(k) + u) > Pre - Post /\ Allow(k) + u \in Nat
    BY ONLY <1>1, u \in 0..Gap
  <1> QED BY ONLY <1>1, <1>2, <1>3

LEMMA TimerNear ==
    ASSUME TypeOK, TimeInv, NEW k \in DOMAIN timer
    PROVE  /\ k \in 1..MaxTimerNum /\ Position(k) \in 0..MaxTimerNum
           /\ timer[k].t \in Time /\ InTime(clock, since, timer[k].t, Position(k))
           /\ clock \in Time /\ since \in 0..Gap
  <1>1. PICK n \in 0..MaxTimerNum : DOMAIN timer = 1..n /\ timer \in [1..n -> Timers]
    BY Table
  <1>2. k \in 1..n /\ k \in 1..MaxTimerNum /\ timer[k] \in Timers
    BY <1>1, Clock
  <1>3. k - 1 \in 0..MaxTimerNum /\ k \in 0..MaxTimerNum
    BY <1>2, Clock
  <1> QED BY <1>2, <1>3 DEF TypeOK, TimeInv, Position, Timers

----------------------------------------------------------------------------
(***************************************************************************)
(* The steps.                                                              *)
(***************************************************************************)
LEMMA TickStep == ASSUME IInv, Tick PROVE IInv'
  <1>1. /\ since < Gap /\ since' = since + 1 /\ clock' = (clock + 1) % Period
        /\ UNCHANGED <<timer, i, now, changed, wake>>
    BY DEF Tick
  <1>2. /\ clock \in Time /\ now \in Time /\ since \in 0..Gap /\ Gap \in Nat /\ 1 \in 0..Quarter
        /\ Quarter \in Nat /\ Period = 4 * Quarter /\ Time = 0..Period - 1 /\ Gap <= Quarter
        /\ Period \in Nat \ {0}
    <2>1. Allow(1) \in Nat /\ Allow(1) + Gap + Pre < Post
      BY AllowIs, Clock
    <2>2. Gap <= Quarter
      BY <2>1, Clock
    <2> QED BY <2>2, Clock DEF IInv, TypeOK
  <1>3. clock' \in Time
    BY <1>1, <1>2, Later
  <1>4. since' \in 0..Gap
    BY <1>1, <1>2
  <1>5. TypeOK'
    BY <1>1, <1>3, <1>4 DEF IInv, TypeOK
  <1>6. ASSUME NEW k \in DOMAIN timer
        PROVE  /\ Left(clock, timer, k) \in Int
               /\ Left(clock, timer, k)' = Left(clock, timer, k) - 1
               /\ InTime(clock, since, timer[k].t, Position(k))'
    <2>1. /\ timer[k].t \in Time /\ InTime(clock, since, timer[k].t, Position(k))
          /\ Position(k) \in 0..MaxTimerNum /\ Position(k)' = Position(k)
      BY <1>1, TimerNear DEF IInv, Position
    <2>2. /\ Left(clock, timer, k) \in Int /\ Left(clock, timer, k) \in -Quarter..Quarter
          /\ Left(clock, timer, k) >= -(Allow(Position(k)) + since) /\ Allow(Position(k)) \in Nat
          /\ Left(clock, timer, k) \in 1 - Post..Quarter - Post
      BY <1>2, <2>1, Near, AllowIs DEF Left
    <2>3. Left(clock, timer, k)' = Left(clock, timer, k) - 1
      <3> DEFINE t == timer[k].t
      <3>1. t \in Time /\ Distance(clock, t) \in -Quarter..Quarter
        BY <2>1, <2>2 DEF Left
      <3> HIDE DEF t
      <3>2. Distance(clock', t) = Distance(clock, t) - 1
        BY ONLY <1>1, <1>2, <3>1, Later
      <3> QED BY <1>1, <3>2 DEF Left, t
    <2> DEFINE x == Left(clock, timer, k)
               a == Allow(Position(k))
    <2>4. x - 1 \in -(a + since')..Quarter - Post
      <3>1. Post \in Nat /\ Quarter \in Nat
        BY Clock
      <3> HIDE DEF x, a
      <3>2. x \in Int /\ x >= -(a + since) /\ a \in Nat /\ x \in 1 - Post..Quarter - Post
        BY <2>2 DEF x, a
      <3> QED BY ONLY <3>1, <3>2, <1>1, <1>2
    <2>5. InTime(clock, since, timer[k].t, Position(k))'
      BY <1>1, <2>1, <2>3, <2>4 DEF InTime, Left
    <2> QED BY <2>2, <2>3, <2>5
  <1>7. TimeInv'
    BY <1>1, <1>6 DEF TimeInv
  <1>8. OrderInv'
    <2> SUFFICES ASSUME i = 0 \/ ~changed, NEW j \in DOMAIN timer, NEW k \in DOMAIN timer, j < k
                 PROVE  Left(clock, timer, j)' <= Left(clock, timer, k)'
      BY <1>1 DEF OrderInv, Left
    <2>1. Left(clock, timer, j) <= Left(clock, timer, k)
      BY DEF IInv, OrderInv
    <2> QED BY <1>6, <2>1
  <1>9. LoopInv'
    <2> SUFFICES ASSUME i > 0
                 PROVE  clock' = (now + since') % Period
      BY <1>1 DEF LoopInv
    <2>1. clock = Mod(now + since, Period)
      BY DEF IInv, LoopInv, Mod
    <2>2. clock' = Mod(clock + 1, Period)
      BY <1>1 DEF Mod
    <2>3. clock' = Mod(now + since', Period)
      BY <1>1, <1>2, <2>1, <2>2, ModIs
    <2> QED BY <2>3 DEF Mod
  <1> QED BY <1>5, <1>7, <1>8, <1>9 DEF IInv

\* What is left of the table without the timer at k.
LEMMA WithoutIs ==
    ASSUME NEW n \in 1..MaxTimerNum, NEW s \in [1..n -> Timers], NEW k \in 1..n, Len(s) = n
    PROVE  /\ n - 1 \in 0..MaxTimerNum /\ Without(s, k) \in [1..n - 1 -> Timers]
           /\ \A j \in 1..n - 1 : Without(s, k)[j] = IF j < k THEN s[j] ELSE s[j + 1]
  <1>1. n \in Nat \ {0} /\ MaxTimerNum \in Nat /\ n <= MaxTimerNum
    BY Clock
  <1>2. Without(s, k) = [j \in 1..n - 1 |-> IF j < k THEN s[j] ELSE s[j + 1]]
    BY DEF Without
  <1>3. \A j \in 1..n - 1 : j \in 1..n /\ j + 1 \in 1..n
    BY <1>1
  <1> QED BY <1>1, <1>2, <1>3

\* Behind the loop, or before it, every timer is as early as its place.
LEMMA AtRest ==
    ASSUME IInv, i = 0 \/ i > Len(timer), NEW n, n = Len(timer)
    PROVE  timer \in Tables(clock, since, n)
  <1>1. n \in 0..MaxTimerNum /\ timer \in [1..n -> Timers] /\ DOMAIN timer = 1..n
    BY Table DEF IInv
  <1>2. \A k \in 1..n : InTime(clock, since, timer[k].t, k)
    BY <1>1 DEF IInv, TypeOK, TimeInv, Position
  <1> QED BY <1>1, <1>2 DEF Tables

\* A sorted table of at most MaxTimerNum timers that are in time.
LEMMA Settle ==
    ASSUME NEW n \in 0..MaxTimerNum, timer' \in Tables(clock, since, n),
           n > 0 => Settled(clock, timer', n, 0), UNCHANGED <<clock, since>>, i' = 0
    PROVE  /\ timer' \in Seq(Timers) /\ Len(timer') <= MaxTimerNum
           /\ TimeInv' /\ OrderInv' /\ LoopInv'
  <1>1. timer' \in [1..n -> Timers] /\ \A k \in 1..n : InTime(clock, since, timer'[k].t, k)
    BY DEF Tables
  <1>2. timer' \in Seq(Timers) /\ Len(timer') <= MaxTimerNum /\ DOMAIN timer' = 1..n
    BY <1>1, TableOK
  <1>3. TimeInv'
    BY <1>1, <1>2 DEF TimeInv, Position
  <1>4. OrderInv'
    <2> SUFFICES ASSUME NEW j \in 1..n, NEW k \in 1..n, j < k
                 PROVE  Left(clock, timer, j)' <= Left(clock, timer, k)'
      BY <1>2 DEF OrderInv, Left
    <2>1. 0 < k /\ n > 0
      BY Clock
    <2>2. Left(clock, timer', j) <= Left(clock, timer', k)
      BY <2>1 DEF Settled
    <2> QED BY <2>2 DEF Left
  <1>5. LoopInv'
    BY DEF LoopInv
  <1> QED BY <1>2, <1>3, <1>4, <1>5

LEMMA AddStep == ASSUME IInv, NEW f \in Callback, NEW d \in Interval, Add(f, d) PROVE IInv'
  <1> DEFINE new == [cb |-> f, t |-> (clock + d) % Period, interval |-> d]
             s == Append(timer, new)
  <1>1. /\ i = 0 /\ Len(timer) < MaxTimerNum /\ timer' = SortTimers(s)
        /\ UNCHANGED <<clock, since, i, now, changed, wake>>
    BY DEF Add
  <1>2. PICK n \in 0..MaxTimerNum : /\ n = Len(timer) /\ timer \in [1..n -> Timers]
                                    /\ DOMAIN timer = 1..n
    BY Table DEF IInv
  <1>3. /\ n + 1 \in 1..MaxTimerNum /\ n \in Nat /\ clock \in Time /\ since \in 0..Gap
        /\ d \in 0..Quarter /\ d <= Quarter - Post /\ Quarter \in Nat /\ Post \in Nat /\ Gap \in Nat
    BY <1>1, <1>2, Clock DEF IInv, TypeOK
  <1>4. new \in Timers /\ Distance(clock, new.t) = d
    BY <1>3, SetAhead DEF Timers
  <1>5. s \in [1..n + 1 -> Timers] /\ s[n + 1] = new /\ \A k \in 1..n : s[k] = timer[k]
    <2> HIDE DEF new
    <2>1. timer \in Seq(Timers) /\ new \in Timers
      BY <1>2, <1>4, TableOK
    <2>2. /\ s \in Seq(Timers) /\ Len(s) = n + 1 /\ s[n + 1] = new
          /\ \A k \in 1..n : s[k] = timer[k]
      BY <1>2, <1>3, <2>1
    <2> HIDE DEF s
    <2>3. s \in [1..Len(s) -> Timers]
      BY <2>2
    <2> QED BY <2>2, <2>3
  <1> HIDE DEF s
  <1>6. \A k \in 1..n + 1 : InTime(clock, since, s[k].t, k)
    <2> SUFFICES ASSUME NEW k \in 1..n + 1
                 PROVE  InTime(clock, since, s[k].t, k)
      OBVIOUS
    <2>1. CASE k = n + 1
      <3>1. Allow(k) \in Nat
        BY <1>3, <2>1, AllowIs, Clock
      <3>2. d \in -(Allow(k) + since)..Quarter - Post
        BY ONLY <1>3, <3>1
      <3> QED BY <1>4, <1>5, <2>1, <3>2 DEF InTime
    <2>2. CASE k # n + 1
      <3>1. k \in 1..n /\ timer \in Tables(clock, since, n)
        BY <1>1, <1>2, <1>3, <2>2, AtRest
      <3> QED BY <1>5, <3>1 DEF Tables
    <2> QED BY <2>1, <2>2
  <1>7. s \in Tables(clock, since, n + 1)
    BY <1>5, <1>6 DEF Tables
  <1>8. timer' \in Tables(clock, since, n + 1) /\ Settled(clock, timer', n + 1, 0)
    BY <1>1, <1>3, <1>7, Sorted
  <1>9. timer' \in Seq(Timers) /\ Len(timer') <= MaxTimerNum /\ TimeInv' /\ OrderInv' /\ LoopInv'
    <2>1. n + 1 \in 0..MaxTimerNum
      BY <1>3
    <2> QED BY <1>1, <1>8, <2>1, Settle
  <1>10. TypeOK'
    BY <1>1, <1>9 DEF IInv, TypeOK
  <1> QED BY <1>9, <1>10 DEF IInv

\* The wake-up is a time, or none.
LEMMA WakeIs ==
    ASSUME NEW t \in Time, NEW c
    PROVE  WakeFor(t, c) \in Time \cup {None}
  BY DEF WakeFor

\* Without one of its timers a table is still one, and in order.
LEMMA StillTable ==
    ASSUME NEW c \in Time, NEW u \in 0..Gap, NEW n \in 1..MaxTimerNum, NEW s \in Tables(c, u, n),
           Settled(c, s, n, 0), NEW k \in 1..n
    PROVE  /\ n - 1 \in 0..MaxTimerNum /\ Without(s, k) \in Tables(c, u, n - 1)
           /\ Settled(c, Without(s, k), n - 1, 0)
  <1> DEFINE w == Without(s, k)
             at(j) == IF j < k THEN j ELSE j + 1
  <1>1. /\ n \in Nat \ {0} /\ MaxTimerNum \in Nat /\ s \in [1..n -> Timers] /\ Len(s) = n
        /\ \A j \in 1..n : InTime(c, u, s[j].t, j)
    BY Clock, TableSeq DEF Tables
  <1>2. /\ n - 1 \in 0..MaxTimerNum /\ w \in [1..n - 1 -> Timers]
        /\ \A j \in 1..n - 1 : w[j] = IF j < k THEN s[j] ELSE s[j + 1]
    BY ONLY <1>1, n \in 1..MaxTimerNum, k \in 1..n, WithoutIs
  <1> HIDE DEF w
  <1>3. ASSUME NEW j \in 1..n - 1
        PROVE  InTime(c, u, w[j].t, j)
    <2>1. j \in 1..n /\ j + 1 \in 1..n /\ j + 1 \in 1..MaxTimerNum /\ j + 1 - 1 = j
      BY <1>1
    <2>2. CASE j < k
      BY <1>1, <1>2, <2>1, <2>2
    <2>3. CASE ~(j < k)
      <3>1. w[j] = s[j + 1] /\ s[j + 1].t \in Time /\ InTime(c, u, s[j + 1].t, j + 1)
        BY <1>1, <1>2, <2>1, <2>3 DEF Timers
      <3> QED BY <2>1, <3>1, NearerInTime
    <2> QED BY <2>2, <2>3
  <1>4. ASSUME NEW x \in 1..n - 1, NEW y \in 1..n - 1, x < y
        PROVE  Left(c, w, x) <= Left(c, w, y)
    <2>1. at(x) \in 1..n /\ at(y) \in 1..n /\ at(x) < at(y) /\ 0 < at(y)
      BY <1>1, <1>4
    <2>2. w[x] = s[at(x)] /\ w[y] = s[at(y)]
      BY <1>2
    <2> HIDE DEF at
    <2> QED BY <2>1, <2>2 DEF Settled, Left
  <1>5. Settled(c, w, n - 1, 0)
    BY <1>4 DEF Settled
  <1> QED BY <1>2, <1>3, <1>5 DEF Tables, w

LEMMA DeleteStep == ASSUME IInv, NEW k, Delete(k) PROVE IInv'
  <1>1. /\ i = 0 /\ k \in DOMAIN timer /\ timer' = Without(timer, k)
        /\ UNCHANGED <<clock, since, i, now, changed>>
        /\ wake' = IF k > 1 THEN wake
                   ELSE WakeFor(IF Len(timer) = 1 THEN timer[1].t ELSE timer[2].t, clock)
    BY DEF Delete
  <1>2. PICK n \in 0..MaxTimerNum : /\ n = Len(timer) /\ timer \in [1..n -> Timers]
                                    /\ DOMAIN timer = 1..n
    BY Table DEF IInv
  <1>3. n \in 1..MaxTimerNum /\ k \in 1..n /\ clock \in Time /\ since \in 0..Gap
    BY <1>1, <1>2, Clock DEF IInv, TypeOK
  <1>4. timer \in Tables(clock, since, n) /\ Settled(clock, timer, n, 0)
    BY <1>1, <1>2, AtRest DEF IInv, OrderInv, Settled
  <1>5. /\ n - 1 \in 0..MaxTimerNum /\ timer' \in Tables(clock, since, n - 1)
        /\ Settled(clock, timer', n - 1, 0)
    BY <1>1, <1>3, <1>4, StillTable
  <1>6. timer' \in Seq(Timers) /\ Len(timer') <= MaxTimerNum /\ TimeInv' /\ OrderInv' /\ LoopInv'
    BY <1>1, <1>5, Settle
  <1>7. wake' \in Time \cup {None}
    <2>1. (IF Len(timer) = 1 THEN timer[1].t ELSE timer[2].t) \in Time
      <3>1. n \in Nat /\ n >= 1
        BY <1>3
      <3>2. CASE n = 1
        BY <1>2, <3>2 DEF Timers
      <3>3. CASE n # 1
        BY <1>2, <3>1, <3>3 DEF Timers
      <3> QED BY <3>2, <3>3
    <2> QED BY <1>1, <2>1, WakeIs DEF IInv, TypeOK
  <1>8. TypeOK'
    BY <1>1, <1>6, <1>7 DEF IInv, TypeOK
  <1> QED BY <1>6, <1>8 DEF IInv

LEMMA ProcessEndStep == ASSUME IInv, ProcessEnd PROVE IInv'
  <1>1. /\ i > Len(timer) /\ timer' = IF timer # <<>> /\ changed THEN SortTimers(timer) ELSE timer
        /\ wake' = IF timer = <<>> THEN None ELSE WakeFor(timer'[1].t, now)
        /\ i' = 0 /\ now' = 0 /\ changed' = FALSE /\ UNCHANGED <<clock, since>>
    BY DEF ProcessEnd
  <1>2. PICK n \in 0..MaxTimerNum : /\ n = Len(timer) /\ timer \in [1..n -> Timers]
                                    /\ DOMAIN timer = 1..n /\ timer = <<>> <=> n = 0
    BY Table DEF IInv
  <1>3. clock \in Time /\ since \in 0..Gap /\ 0 \in Time /\ n \in Nat
    BY <1>2, Clock DEF IInv, TypeOK
  <1>4. timer \in Tables(clock, since, n)
    BY <1>1, <1>2, AtRest
  <1>5. timer' \in Tables(clock, since, n) /\ (n > 0 => Settled(clock, timer', n, 0))
    <2>1. CASE n > 0 /\ changed
      <3>1. n \in 1..MaxTimerNum /\ timer' = SortTimers(timer)
        BY <1>1, <1>2, <2>1
      <3> QED BY <1>3, <1>4, <3>1, Sorted
    <2>2. CASE ~changed
      BY <1>1, <1>2, <1>4, <2>2 DEF IInv, OrderInv, Settled
    <2>3. CASE ~(n > 0)
      BY <1>1, <1>2, <1>3, <1>4, <2>3
    <2> QED BY <2>1, <2>2, <2>3
  <1>6. timer' \in Seq(Timers) /\ Len(timer') <= MaxTimerNum /\ TimeInv' /\ OrderInv' /\ LoopInv'
    BY <1>1, <1>5, Settle
  <1>7. wake' \in Time \cup {None}
    <2>1. CASE n = 0
      BY <1>1, <1>2, <2>1
    <2>2. CASE n # 0
      <3>1. timer'[1].t \in Time
        BY <1>3, <1>5, <2>2 DEF Tables, Timers
      <3> QED BY <1>1, <1>2, <2>2, <3>1, WakeIs
    <2> QED BY <2>1, <2>2
  <1>8. TypeOK'
    <2>1. i' \in 0..MaxTimerNum + 1
      <3>1. MaxTimerNum \in Nat /\ i' = 0
        BY <1>1, Clock
      <3> QED BY ONLY <3>1
    <2>2. changed' \in BOOLEAN
      BY <1>1
    <2>3. now' \in Time
      BY <1>1, <1>3
    <2> QED BY <1>1, <1>3, <1>6, <1>7, <2>1, <2>2, <2>3 DEF TypeOK
  <1> QED BY <1>6, <1>8 DEF IInv

LEMMA ProcessStep == ASSUME IInv, Process PROVE IInv'
  <1>1. /\ i = 0 /\ since' = 0 /\ changed' = FALSE /\ UNCHANGED <<timer, clock>>
        /\ timer = <<>> => wake' = None /\ i' = i /\ now' = now
        /\ timer # <<>> => /\ i' = IF IsTimerExpired(timer[1].t, clock) THEN 1 ELSE 0
                           /\ now' = IF i' = 1 THEN clock ELSE now
                           /\ wake' = wake
    BY DEF Process
  <1>2. PICK n \in 0..MaxTimerNum : /\ n = Len(timer) /\ timer \in [1..n -> Timers]
                                    /\ DOMAIN timer = 1..n /\ timer = <<>> <=> n = 0
    BY Table DEF IInv
  <1>3. clock \in Time /\ since \in 0..Gap /\ 0 \in 0..Gap /\ n \in Nat /\ MaxTimerNum \in Nat
        /\ Pre \in Nat /\ Gap \in Nat /\ Quarter \in Nat /\ Post \in Nat
    BY <1>2, Clock DEF IInv, TypeOK
  <1>4. i' \in {0, 1} /\ (i' = 1 => now' = clock)
    BY <1>1
  <1>5. TypeOK'
    <2>1. i' \in 0..MaxTimerNum + 1
      BY <1>3, <1>4
    <2>2. now' \in Time /\ wake' \in Time \cup {None} /\ changed' \in BOOLEAN
      BY <1>1, <1>4 DEF IInv, TypeOK
    <2> QED BY <1>1, <1>3, <2>1, <2>2 DEF IInv, TypeOK
  <1>6. ASSUME NEW k \in 1..n
        PROVE  /\ timer[k].t \in Time /\ InTime(clock, since, timer[k].t, k)
               /\ Left(clock, timer, k) \in Int /\ Left(clock, timer, k) <= Quarter - Post
               /\ Left(clock, timer, k) >= -(Allow(k) + since) /\ Allow(k) \in Nat
               /\ k \in 1..MaxTimerNum /\ Allow(k - 1) = Allow(k) + Gap
               /\ Left(clock, timer, k) + Post \in Pre + 1..2 * Quarter
    <2>1. k \in 1..MaxTimerNum /\ k \in 0..MaxTimerNum
      BY <1>2, <1>3
    <2>2. timer[k].t \in Time /\ InTime(clock, since, timer[k].t, k)
      BY <1>1, <1>2, AtRest DEF Tables, Timers
    <2>3. /\ Left(clock, timer, k) \in Int /\ Left(clock, timer, k) >= -(Allow(k) + since)
          /\ Left(clock, timer, k) \in 1 - Post..Quarter - Post
          /\ Left(clock, timer, k) + Post \in Pre + 1..2 * Quarter
      BY <1>3, <2>1, <2>2, Near DEF Left
    <2>4. Left(clock, timer, k) <= Quarter - Post
      BY <1>3, <2>3
    <2> QED BY <2>1, <2>2, <2>3, <2>4, AllowIs
  <1>7. ASSUME NEW k \in 1..n
        PROVE  InTime(clock, since, timer[k].t, Position(k))'
    <2> DEFINE x == Left(clock, timer, k)
    <2> HIDE DEF x
    <2>1. CASE i' = 1
      <3>1. Position(k)' = k - 1
        BY <1>3, <2>1 DEF Position
      <3>2. x \in -(Allow(k - 1) + 0)..Quarter - Post
        <4>1. /\ x \in Int /\ x >= -(Allow(k) + since) /\ x <= Quarter - Post /\ Allow(k) \in Nat
              /\ Allow(k - 1) = Allow(k) + Gap
          BY <1>6 DEF x
        <4> QED BY ONLY <1>3, <4>1
      <3> QED BY <1>1, <3>1, <3>2 DEF InTime, Left, x
    <2>2. CASE i' = 0
      <3>1. Position(k)' = k
        BY <2>2 DEF Position
      <3>2. 1 \in 1..n /\ timer # <<>> /\ (1 < k \/ k = 1)
        BY <1>2, <1>3
      <3>3. Left(clock, timer, 1) > Pre
        <4>1. ~IsTimerExpired(timer[1].t, clock)
          BY <1>1, <2>2, <3>2
        <4>2. /\ timer[1].t \in Time /\ Distance(clock, timer[1].t) + Post \in Pre + 1..2 * Quarter
              /\ Distance(clock, timer[1].t) \in Int
          BY <1>6, <3>2 DEF Left
        <4> QED BY <1>3, <4>1, <4>2, Expired DEF Left
      <3>4. x \in Int /\ x <= Quarter - Post /\ Allow(k) \in Nat
            /\ Left(clock, timer, 1) \in Int
        BY <1>6, <3>2 DEF x
      <3>5. x >= Left(clock, timer, 1)
        BY <1>1, <1>2, <3>2, <3>4 DEF IInv, OrderInv, x
      <3>6. x \in -(Allow(k) + 0)..Quarter - Post
        BY ONLY <1>3, <3>3, <3>4, <3>5
      <3> QED BY <1>1, <3>1, <3>6 DEF InTime, Left, x
    <2> QED BY <1>4, <2>1, <2>2
  <1>8. TimeInv'
    BY <1>1, <1>2, <1>7 DEF TimeInv
  <1>9. OrderInv'
    BY <1>1 DEF IInv, OrderInv, Left
  <1>10. LoopInv'
    <2>1. clock = (clock + 0) % Period
      <3>1. clock = Mod(clock + 0, Period)
        BY <1>3, Clock, ModIs
      <3> QED BY <3>1 DEF Mod
    <2> QED BY <1>1, <1>4, <2>1 DEF LoopInv
  <1> QED BY <1>5, <1>8, <1>9, <1>10 DEF IInv

\* What is left at the time now of the loop, and on the clock.
LEMMA InLoop ==
    ASSUME IInv, i \in DOMAIN timer
    PROVE  /\ i \in 1..MaxTimerNum /\ now \in Time /\ clock \in Time /\ since \in 0..Gap
           /\ since \in 0..Quarter /\ clock = (now + since) % Period
           /\ i \in Nat /\ i + 1 \in 1..MaxTimerNum + 1 /\ i > 0
  <1>1. i \in 1..MaxTimerNum /\ clock \in Time /\ since \in 0..Gap /\ now \in Time
        /\ MaxTimerNum \in Nat
    BY TimerNear, Clock DEF IInv, TypeOK
  <1>2. since \in 0..Quarter
    <2>1. Allow(1) \in Nat /\ Allow(1) + Gap + Pre < Post
      BY AllowIs, Clock
    <2> QED BY <1>1, <2>1, Clock
  <1>3. i \in Nat /\ i + 1 \in 1..MaxTimerNum + 1 /\ i > 0
    BY <1>1
  <1> QED BY <1>1, <1>2, <1>3 DEF IInv, LoopInv

LEMMA NotDueStep == ASSUME IInv, NotDue PROVE IInv'
  <1>1. /\ i \in DOMAIN timer /\ ~IsTimerExpired(timer[i].t, now) /\ i' = i + 1
        /\ UNCHANGED <<timer, clock, since, now, changed, wake>>
    BY DEF NotDue
  <1>2. PICK n \in 0..MaxTimerNum : /\ n = Len(timer) /\ timer \in [1..n -> Timers]
                                    /\ DOMAIN timer = 1..n
    BY Table DEF IInv
  <1>3. /\ i \in 1..MaxTimerNum /\ i \in Nat /\ i > 0 /\ i + 1 \in 1..MaxTimerNum + 1
        /\ now \in Time /\ clock \in Time /\ since \in 0..Gap /\ since \in 0..Quarter
        /\ clock = (now + since) % Period /\ MaxTimerNum \in Nat
        /\ Post \in Nat /\ Pre \in Nat /\ Gap \in Nat /\ Quarter \in Nat
    BY <1>1, InLoop, Clock
  <1>4. TypeOK'
    <2>1. i' \in 0..MaxTimerNum + 1
      BY <1>1, <1>3
    <2> QED BY <1>1, <2>1 DEF IInv, TypeOK
  <1>5. InTime(clock, since, timer[i].t, i)
    <2> DEFINE t == timer[i].t
    <2>1. /\ t \in Time /\ InTime(clock, since, t, Position(i)) /\ Position(i) \in 0..MaxTimerNum
      BY <1>1, TimerNear DEF IInv
    <2>2. /\ Distance(clock, t) \in -Quarter..Quarter - 1 /\ Distance(clock, t) \in Int
          /\ Distance(clock, t) \in 1 - Post..Quarter - Post
          /\ Distance(clock, t) + Post \in Pre + 1..2 * Quarter
      BY <1>3, <2>1, Near
    <2> HIDE DEF t
    <2>3. Distance(now, t) = Distance(clock, t) + since
      BY ONLY <1>3, <2>1, <2>2, Later
    <2>4. Distance(now, t) > Pre
      <3>1. ~IsTimerExpired(t, now)
        BY <1>1 DEF t
      <3>2. Distance(now, t) + Post \in Pre + 1..2 * Quarter /\ Distance(now, t) \in Int
        <4>1. Post <= Quarter
          BY <1>3, Clock
        <4> QED BY <1>3, <2>2, <2>3, <4>1
      <3> QED BY <1>3, <2>1, <3>1, <3>2, Expired
    <2>5. Allow(i) \in Nat
      BY <1>3, AllowIs
    <2>6. Distance(clock, t) \in -(Allow(i) + since)..Quarter - Post
      BY ONLY <1>3, <2>2, <2>3, <2>4, <2>5
    <2> QED BY <2>6 DEF InTime, t
  <1>6. ASSUME NEW k \in 1..n
        PROVE  InTime(clock, since, timer[k].t, Position(k))'
    <2>1. InTime(clock, since, timer[k].t, Position(k)) /\ k \in Nat
      BY <1>2 DEF IInv, TimeInv
    <2>2. CASE k = i
      BY <1>1, <1>3, <1>5, <2>2 DEF Position
    <2>3. CASE k # i
      <3>1. Position(k)' = Position(k)
        BY <1>1, <1>3, <2>1, <2>3 DEF Position
      <3> QED BY <1>1, <2>1, <3>1
    <2> QED BY <2>2, <2>3
  <1>7. TimeInv'
    BY <1>1, <1>2, <1>6 DEF TimeInv
  <1>8. OrderInv' /\ LoopInv'
    BY <1>1, <1>3 DEF IInv, OrderInv, LoopInv, Left
  <1> QED BY <1>4, <1>7, <1>8 DEF IInv

LEMMA FireLastStep == ASSUME IInv, FireLast PROVE IInv'
  <1>1. /\ i \in DOMAIN timer /\ timer' = Without(timer, i) /\ i' = i + 1
        /\ UNCHANGED <<clock, since, now, changed, wake>>
    BY DEF FireLast
  <1>2. PICK n \in 0..MaxTimerNum : /\ n = Len(timer) /\ timer \in [1..n -> Timers]
                                    /\ DOMAIN timer = 1..n
    BY Table DEF IInv
  <1>3. /\ i \in 1..MaxTimerNum /\ i \in Nat /\ i > 0 /\ i + 1 \in 1..MaxTimerNum + 1
        /\ clock \in Time /\ since \in 0..Gap /\ MaxTimerNum \in Nat /\ i \in 1..n
        /\ n \in 1..MaxTimerNum /\ n \in Nat
    BY <1>1, <1>2, InLoop, Clock
  <1>4. /\ n - 1 \in 0..MaxTimerNum /\ timer' \in [1..n - 1 -> Timers]
        /\ \A j \in 1..n - 1 : timer'[j] = IF j < i THEN timer[j] ELSE timer[j + 1]
    <2>1. n \in 1..MaxTimerNum /\ timer \in [1..n -> Timers] /\ i \in 1..n /\ Len(timer) = n
      BY <1>2, <1>3
    <2>2. /\ n - 1 \in 0..MaxTimerNum /\ Without(timer, i) \in [1..n - 1 -> Timers]
          /\ \A j \in 1..n - 1 : Without(timer, i)[j] = IF j < i THEN timer[j] ELSE timer[j + 1]
      BY ONLY <2>1, WithoutIs
    <2> QED BY <1>1, <2>2, Zenon
  <1>5. timer' \in Seq(Timers) /\ Len(timer') <= MaxTimerNum /\ DOMAIN timer' = 1..n - 1
    BY <1>4, TableOK
  <1>6. TypeOK'
    <2>1. i' \in 0..MaxTimerNum + 1
      BY <1>1, <1>3
    <2> QED BY <1>1, <1>5, <2>1 DEF IInv, TypeOK
  <1>7. ASSUME NEW k \in 1..n - 1
        PROVE  InTime(clock, since, timer'[k].t, IF k <= i THEN k ELSE k - 1)
    <2>1. /\ k \in 1..n /\ k + 1 \in 1..n /\ k \in 1..MaxTimerNum /\ k \in Nat /\ k + 1 - 1 = k
      BY <1>3
    <2>2. \A j \in 1..n : InTime(clock, since, timer[j].t, Position(j)) /\ timer[j].t \in Time
      BY <1>2 DEF IInv, TimeInv, Timers
    <2>3. CASE k < i
      <3>1. timer'[k] = timer[k] /\ Position(k) = k
        BY <1>3, <1>4, <2>1, <2>3 DEF Position
      <3> QED BY <2>1, <2>2, <2>3, <3>1, <1>3
    <2>4. CASE ~(k < i)
      <3>1. timer'[k] = timer[k + 1] /\ Position(k + 1) = k
        BY <1>3, <1>4, <2>1, <2>4 DEF Position
      <3>2. InTime(clock, since, timer'[k].t, k) /\ timer'[k].t \in Time
        BY <2>1, <2>2, <3>1
      <3>3. InTime(clock, since, timer'[k].t, k - 1)
        BY <1>3, <2>1, <3>2, NearerInTime
      <3> QED BY <3>2, <3>3
    <2> QED BY <2>3, <2>4
  <1>8. TimeInv'
    <2> SUFFICES ASSUME NEW k \in 1..n - 1
                 PROVE  InTime(clock, since, timer[k].t, Position(k))'
      BY <1>5 DEF TimeInv
    <2>1. Position(k)' = IF k <= i THEN k ELSE k - 1
      <3>1. k \in Nat
        BY <1>3
      <3> QED BY <1>1, <1>3, <3>1 DEF Position
    <2> QED BY <1>1, <1>7, <2>1
  <1>9. OrderInv'
    <2> SUFFICES ASSUME ~changed, NEW x \in 1..n - 1, NEW y \in 1..n - 1, x < y
                 PROVE  Left(clock, timer', x) <= Left(clock, timer', y)
      BY <1>1, <1>3, <1>5 DEF OrderInv, Left
    <2> DEFINE at(j) == IF j < i THEN j ELSE j + 1
    <2>1. at(x) \in 1..n /\ at(y) \in 1..n /\ at(x) < at(y)
      BY <1>3
    <2>2. timer'[x] = timer[at(x)] /\ timer'[y] = timer[at(y)]
      BY <1>4
    <2> HIDE DEF at
    <2> QED BY <1>2, <2>1, <2>2 DEF IInv, OrderInv, Left
  <1>10. LoopInv'
    BY <1>1, <1>3 DEF IInv, LoopInv
  <1> QED BY <1>6, <1>8, <1>9, <1>10 DEF IInv

LEMMA FireAgainStep == ASSUME IInv, NEW d \in Interval, FireAgain(d) PROVE IInv'
  <1> DEFINE t == (now + d) % Period
  <1>1. /\ i \in DOMAIN timer /\ i' = i + 1 /\ changed' = TRUE
        /\ timer' = [timer EXCEPT ![i].t = t, ![i].interval = d]
        /\ UNCHANGED <<clock, since, now, wake>>
    BY DEF FireAgain
  <1>2. PICK n \in 0..MaxTimerNum : /\ n = Len(timer) /\ timer \in [1..n -> Timers]
                                    /\ DOMAIN timer = 1..n
    BY Table DEF IInv
  <1>3. /\ i \in 1..MaxTimerNum /\ i \in Nat /\ i > 0 /\ i + 1 \in 1..MaxTimerNum + 1
        /\ now \in Time /\ clock \in Time /\ since \in 0..Gap /\ since \in 0..Quarter
        /\ clock = (now + since) % Period /\ MaxTimerNum \in Nat /\ i \in 1..n /\ n \in Nat
        /\ Post \in Nat /\ Pre \in Nat /\ Gap \in Nat /\ Quarter \in Nat
    BY <1>1, <1>2, InLoop, Clock
  <1>3a. d \in Nat /\ d \in 0..Quarter /\ d <= Quarter - Post
    <2>1. d \in Nat /\ d + Post <= Quarter
      BY Clock
    <2> QED BY ONLY <1>3, <2>1
  <1>4. t \in Time /\ Distance(now, t) = d
    BY ONLY <1>3, <1>3a, SetAhead
  <1> HIDE DEF t
  <1>5. /\ timer' \in [1..n -> Timers] /\ timer'[i].t = t
        /\ \A k \in 1..n : k # i => timer'[k] = timer[k]
    BY <1>1, <1>2, <1>3, <1>4 DEF Timers
  <1>6. timer' \in Seq(Timers) /\ Len(timer') <= MaxTimerNum /\ DOMAIN timer' = 1..n
    BY <1>5, TableOK
  <1>7. TypeOK'
    <2>1. i' \in 0..MaxTimerNum + 1
      BY <1>1, <1>3
    <2>2. changed' \in BOOLEAN
      BY <1>1
    <2> QED BY <1>1, <1>6, <2>1, <2>2 DEF IInv, TypeOK
  <1>8. InTime(clock, since, t, i)
    <2>1. Distance(clock, t) = d - since
      <3>1. Distance(now, t) \in -Quarter..Quarter
        BY <1>3, <1>4, <1>3a
      <3>2. Distance(clock, t) = Distance(now, t) - since
        BY ONLY <1>3, <1>4, <3>1, Later
      <3> QED BY <1>4, <3>2
    <2>2. Allow(i) \in Nat
      BY <1>3, AllowIs
    <2>3. Distance(clock, t) \in -(Allow(i) + since)..Quarter - Post
      BY ONLY <1>3, <1>3a, <2>1, <2>2
    <2> QED BY <2>3 DEF InTime
  <1>9. ASSUME NEW k \in 1..n
        PROVE  InTime(clock, since, timer[k].t, Position(k))'
    <2>1. InTime(clock, since, timer[k].t, Position(k)) /\ k \in Nat
      BY <1>2 DEF IInv, TimeInv
    <2>2. CASE k = i
      BY <1>1, <1>3, <1>5, <1>8, <2>2 DEF Position
    <2>3. CASE k # i
      <3>1. Position(k)' = Position(k)
        BY <1>1, <1>3, <2>1, <2>3 DEF Position
      <3> QED BY <1>1, <1>5, <2>1, <2>3, <3>1
    <2> QED BY <2>2, <2>3
  <1>10. TimeInv'
    BY <1>6, <1>9 DEF TimeInv
  <1>11. OrderInv' /\ LoopInv'
    BY <1>1, <1>3 DEF IInv, OrderInv, LoopInv
  <1> QED BY <1>7, <1>10, <1>11 DEF IInv

----------------------------------------------------------------------------
\* The invariant holds in every reachable state.
THEOREM Invariant == Spec => []IInv
  <1>1. Init => IInv
    <2> SUFFICES ASSUME Init
                 PROVE  IInv
      OBVIOUS
    <2>1. timer \in Seq(Timers) /\ Len(timer) = 0 /\ DOMAIN timer = {}
      BY DEF Init
    <2>2. /\ MaxTimerNum \in Nat /\ 0 \in Time /\ 0 \in 0..Gap /\ 0 <= MaxTimerNum
          /\ 0 \in 0..MaxTimerNum + 1
      <3>1. MaxTimerNum \in Nat /\ Gap \in Nat /\ Period \in Nat \ {0} /\ Time = 0..Period - 1
        BY Clock
      <3> QED BY ONLY <3>1
    <2>3. TypeOK
      BY <2>1, <2>2 DEF Init, TypeOK
    <2> QED BY <2>1, <2>3 DEF Init, IInv, TimeInv, OrderInv, LoopInv
  <1>2. IInv /\ [Next]_vars => IInv'
    <2> SUFFICES ASSUME IInv, [Next]_vars
                 PROVE  IInv'
      OBVIOUS
    <2>1. CASE \E f \in Callback, d \in Interval : Add(f, d)
      BY <2>1, AddStep
    <2>2. CASE \E k \in 1..MaxTimerNum : Delete(k)
      BY <2>2, DeleteStep
    <2>3. CASE Process \/ NotDue \/ FireLast
      BY <2>3, ProcessStep, NotDueStep, FireLastStep
    <2>4. CASE \E d \in Interval : FireAgain(d)
      BY <2>4, FireAgainStep
    <2>5. CASE ProcessEnd \/ Tick
      BY <2>5, ProcessEndStep, TickStep
    <2>6. CASE UNCHANGED vars
      <3>1. TypeOK' /\ LoopInv'
        BY <2>6 DEF vars, IInv, TypeOK, LoopInv
      <3>2. TimeInv' /\ OrderInv'
        BY <2>6 DEF vars, IInv, TimeInv, OrderInv, Position, Left
      <3> QED BY <3>1, <3>2 DEF IInv
    <2> QED BY <2>1, <2>2, <2>3, <2>4, <2>5, <2>6 DEF Next
  <1> QED BY <1>1, <1>2, PTL DEF Spec

\* The types of the variables.
THEOREM TypeCorrect == Spec => []TypeOK
  BY Invariant, PTL DEF IInv

\* Between two calls of blt_soft_timer_process the table is in the order of the times that
\* are left, across the wrap-around of the clock.
THEOREM Ordered == Spec => []SortedByTime
  <1>1. IInv => SortedByTime
    BY DEF IInv, OrderInv, SortedByTime, Left
  <1> QED BY <1>1, Invariant, PTL

\* No timer gets so late that blt_is_timer_expired takes it for one of the future.
THEOREM Seen == Spec => []NeverMissed
  <1>1. IInv => NeverMissed
    <2> SUFFICES ASSUME IInv, NEW k \in DOMAIN timer
                 PROVE  Distance(timer[k].t, clock + Pre) < Post
      BY DEF NeverMissed
    <2>1. /\ timer[k].t \in Time /\ clock \in Time /\ since \in 0..Gap
          /\ Position(k) \in 0..MaxTimerNum /\ InTime(clock, since, timer[k].t, Position(k))
      BY TimerNear DEF IInv
    <2> DEFINE t == timer[k].t
    <2> HIDE DEF t
    <2>2. Distance(clock, t) + Post \in Pre + 1..2 * Quarter
      BY <2>1, Near DEF t
    <2>3. Distance(t, clock + Pre) < Post
      BY <2>1, <2>2, Expired DEF t
    <2> QED BY <2>3 DEF t
  <1> QED BY <1>1, Invariant, PTL
=============================================================================
