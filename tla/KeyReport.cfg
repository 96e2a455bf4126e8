\* Two keys of the keyboard, two of the consumer page, one of the system page and
\* the empty keycode.
CONSTANTS
    Normal = {n1, n2}
    Sys = {s1}
    Media = {m1, m2}
    Zero = Zero
    Up = Up
    Idle = Idle
SPECIFICATION Spec
INVARIANTS
    TypeOK
    DownIsRemembered
PROPERTY ReleaseOnFreeEndpoints
