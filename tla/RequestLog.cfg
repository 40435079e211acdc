\* An hour is one unit of time, a day three, the look-back two hours.
\* No symmetry: it is not sound for liveness.
CONSTANTS
    Records = {r1, r2}
    ChanCap = 1
    MaxBatch = 2
    HourLen = 1
    DayLen = 3
    LookBack = 2
    Retention = 3
    MaxTime = 4
SPECIFICATION FairSpec
INVARIANTS
    OneFate
PROPERTIES
    AcceptedIsWritten
    RecentBucketsGrow
