\* Two models compete for one port.  No symmetry: it is not sound for liveness.
CONSTANTS
    Names = {n1, n2}
    Insts = {i1, i2}
    Pids = {p1, p2}
    Callers = {c1}
    Ports = {q1}
    Main = main
    None = none
    MaxRestarts = 1
SPECIFICATION FairSpec
\* The agent exits.
CHECK_DEADLOCK FALSE
PROPERTIES
    CaughtStopSucceeds
    StoppedForGood
    ReadyIsRepaired
