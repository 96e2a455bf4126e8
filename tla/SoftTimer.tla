------------------------------ MODULE SoftTimer ------------------------------
(***************************************************************************)
(* The software timers of the SDK (vendor/common/blt_soft_timer.c): a      *)
(* table of at most MaxTimerNum timers ordered by the time they are due,   *)
(* polled by the main loop.                                                *)
(*                                                                         *)
(* The clock counts modulo Period (2^32 ticks).  blt_soft_timer_process is *)
(* called at least every Gap ticks.  It runs its callbacks one after       *)
(* another with the clock going on; its variable now stays what it was.    *)
(***************************************************************************)
EXTENDS Integers, Sequences

CONSTANTS
    Callback,    \* the functions that are used as timers, each at most once
    Interval,    \* intervals, in ticks
    MaxTimerNum, \* MAX_TIMER_NUM: 4
    Period,      \* 2^32 ticks
    Pre, Post,   \* BLT_TIMER_SAFE_MARGIN_PRE, _POST: 256 us, 4 s
    WakeSpan,    \* a wake-up is requested for timers due in less than 3 s
    Gap,         \* ticks between two calls of blt_soft_timer_process
    None         \* no wake-up requested

ASSUME TimerAssumption ==
    /\ {MaxTimerNum, Period, Pre, Post, WakeSpan, Gap} \subseteq Nat \ {0}
    /\ Interval \subseteq Nat \ {0} /\ \A d \in Interval : d + Post <= Period \div 4
    /\ (MaxTimerNum + 1) * Gap + Pre < Post /\ Post < Period \div 4
    /\ Period % 4 = 0 /\ None \notin 0..Period - 1

VARIABLES
    timer,   \* blt_timer: a sequence of [cb, t, interval]
    clock,   \* clock_time()
    since,   \* ticks since the last call of blt_soft_timer_process
    i, now,  \* its loop: the index, 0 when it is not running, and its now
    changed, \* change_flg
    wake     \* bls_pm_setAppWakeupLowPower: the tick, or None

vars == <<timer, clock, since, i, now, changed, wake>>

Time == 0..Period - 1
Timers == [cb : Callback, t : Time, interval : Interval]

\* Ticks from s to t on the clock that wraps around.
Span(s, t) == (t - s) % Period

\* The same as a number that is negative when t is before s.
Distance(s, t) == IF Span(s, t) < Period \div 2 THEN Span(s, t) ELSE Span(s, t) - Period

----------------------------------------------------------------------------
\* Mutant of TimeCompareBig: the wrap-around is forgotten.
TimeCompareBigPlain(t1, t2) == t1 >= t2

TimeCompareBig(t1, t2) == Span(t2, t1) < Period \div 4

IsTimerExpired(t, at) == Span(t, at + Pre) < Post

\* blt_soft_timer_sort: bubble sort.
CompareSwap(s, j) ==
    IF TimeCompareBig(s[j].t, s[j + 1].t)
      THEN [s EXCEPT ![j] = s[j + 1], ![j + 1] = s[j]]
      ELSE s
Sweep(s, m) ==
    LET f[j \in 0..m] == IF j = 0 THEN s ELSE CompareSwap(f[j - 1], j) IN f[m]
SortTimers(s) ==
    LET m == Len(s) - 1
        f[k \in 0..m] == IF k = 0 THEN s ELSE Sweep(f[k - 1], Len(s) - k)
    IN f[m]

\* blt_soft_timer_delete_by_index: those behind move up.
Without(s, k) == [j \in 1..Len(s) - 1 |-> IF j < k THEN s[j] ELSE s[j + 1]]

\* A wake-up for the first timer, if it is due soon.
WakeFor(t, at) == IF Span(at, t) < WakeSpan THEN t ELSE None

Init ==
    /\ timer = <<>> /\ clock = 0 /\ since = 0
    /\ i = 0 /\ now = 0 /\ changed = FALSE
    /\ wake = None

----------------------------------------------------------------------------
\* Mutant of Add: the table has no limit.
AddNoLimit(c, d) ==
    /\ i = 0 /\ \A k \in DOMAIN timer : timer[k].cb # c
    /\ timer' = SortTimers(
          Append(timer, [cb |-> c, t |-> (clock + d) % Period, interval |-> d]))
    /\ UNCHANGED <<clock, since, i, now, changed, wake>>

\* blt_soft_timer_add; it does nothing when the table is full.
Add(c, d) ==
    /\ i = 0 /\ Len(timer) < MaxTimerNum
    /\ \A k \in DOMAIN timer : timer[k].cb # c
    /\ timer' = SortTimers(
          Append(timer, [cb |-> c, t |-> (clock + d) % Period, interval |-> d]))
    /\ UNCHANGED <<clock, since, i, now, changed, wake>>

\* blt_soft_timer_delete: the wake-up is set anew when the first timer goes.
\* Behind the last timer the table still holds what was there.
Delete(k) ==
    /\ i = 0 /\ k \in DOMAIN timer
    /\ timer' = Without(timer, k)
    /\ wake' = IF k > 1 THEN wake
               ELSE WakeFor(IF Len(timer) = 1 THEN timer[1].t ELSE timer[2].t, clock)
    /\ UNCHANGED <<clock, since, i, now, changed>>

\* blt_soft_timer_process: nothing to do, or the loop begins.
Process ==
    /\ i = 0
    /\ since' = 0
    /\ IF timer = <<>>
         THEN wake' = None /\ UNCHANGED <<i, now>>
         ELSE /\ i' = IF IsTimerExpired(timer[1].t, clock) THEN 1 ELSE 0
              /\ now' = IF i' = 1 THEN clock ELSE now
              /\ UNCHANGED wake
    /\ changed' = FALSE
    /\ UNCHANGED <<timer, clock>>

\* One turn of its loop: the timer is not due,
NotDue ==
    /\ i \in DOMAIN timer /\ ~IsTimerExpired(timer[i].t, now)
    /\ i' = i + 1
    /\ UNCHANGED <<timer, clock, since, now, changed, wake>>

\* its callback returns a negative number, and i passes over the next timer,
FireLast ==
    /\ i \in DOMAIN timer /\ IsTimerExpired(timer[i].t, now)
    /\ timer' = Without(timer, i)
    /\ i' = i + 1
    /\ UNCHANGED <<clock, since, now, changed, wake>>

\* or returns 0, or a new interval.
FireAgain(d) ==
    /\ i \in DOMAIN timer /\ IsTimerExpired(timer[i].t, now)
    /\ timer' = [timer EXCEPT ![i].t = (now + d) % Period, ![i].interval = d]
    /\ changed' = TRUE
    /\ i' = i + 1
    /\ UNCHANGED <<clock, since, now, wake>>

\* Mutant of ProcessEnd: the changed table is not sorted.
ProcessEndUnsorted ==
    /\ i > Len(timer)
    /\ wake' = IF timer = <<>> THEN None ELSE WakeFor(timer[1].t, now)
    /\ i' = 0 /\ now' = 0 /\ changed' = FALSE
    /\ UNCHANGED <<timer, clock, since>>

\* The end of the loop: sort, and set the wake-up for the first timer.
ProcessEnd ==
    /\ i > Len(timer)
    /\ timer' = IF timer # <<>> /\ changed THEN SortTimers(timer) ELSE timer
    /\ wake' = IF timer = <<>> THEN None ELSE WakeFor(timer'[1].t, now)
    /\ i' = 0 /\ now' = 0 /\ changed' = FALSE
    /\ UNCHANGED <<clock, since>>

Tick ==
    /\ since < Gap
    /\ clock' = (clock + 1) % Period
    /\ since' = since + 1
    /\ UNCHANGED <<timer, i, now, changed, wake>>

----------------------------------------------------------------------------
Next ==
    \/ \E c \in Callback, d \in Interval : Add(c, d)
    \/ \E k \in 1..MaxTimerNum : Delete(k)
    \/ Process \/ NotDue \/ FireLast
    \/ \E d \in Interval : FireAgain(d)
    \/ ProcessEnd \/ Tick

Spec == Init /\ [][Next]_vars

----------------------------------------------------------------------------
\* The types of the variables.
TypeOK ==
    /\ timer \in Seq(Timers) /\ Len(timer) <= MaxTimerNum
    /\ clock \in Time /\ now \in Time /\ since \in 0..Gap
    /\ i \in 0..MaxTimerNum + 1
    /\ changed \in BOOLEAN
    /\ wake \in Time \cup {None}

\* Between two calls the table is in the order of the times that are left,
\* across the wrap-around of the clock and whatever callbacks made of it.
SortedByTime ==
    i = 0 => \A j, k \in DOMAIN timer :
        j < k => Distance(clock, timer[j].t) <= Distance(clock, timer[k].t)

\* No timer gets so late that it is taken for one of the future: a timer behind
\* an earlier one, or passed over when one is deleted, is seen in time.
NeverMissed ==
    \A k \in DOMAIN timer : Distance(timer[k].t, clock + Pre) < Post
=============================================================================
