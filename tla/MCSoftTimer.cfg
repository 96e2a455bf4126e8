\* Four callbacks, three timers, a clock of 52 ticks; intervals leave the time the code tolerates
\* to the quarter of it that the comparison allows.
CONSTANTS
    Callback = {a, b, c, d}
    Interval = {1, 3}
    MaxTimerNum = 3
    Period = 52
    Pre = 1
    Post = 10
    WakeSpan = 3
    Gap = 2
    None = None
SYMMETRY CallbackSymmetry
SPECIFICATION Spec
INVARIANTS
    TypeOK
    SortedByTime
    NeverMissed
