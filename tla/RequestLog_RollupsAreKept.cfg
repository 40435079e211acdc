\* Two requests of one day, on both sides of the cutoff.
CONSTANTS
    Records = {r1, r2}
    ChanCap = 1
    MaxBatch = 1
    HourLen = 1
    DayLen = 3
    LookBack = 2
    Retention = 3
    MaxTime = 4
SPECIFICATION Spec
SYMMETRY Symmetry
INVARIANT
    RollupsAreKept
