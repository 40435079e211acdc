\* One model started, stopped, removed and started again by two callers while
\* its engine crashes and restarts: two Instance objects, three launches.
CONSTANTS
    Names = {n1}
    Insts = {i1, i2}
    Pids = {p1, p2, p3}
    Callers = {c1, c2}
    Ports = {q1, q2}
    Main = main
    None = none
    MaxRestarts = 1
SPECIFICATION Spec
SYMMETRY Symmetry
\* The agent exits.
CHECK_DEADLOCK FALSE
INVARIANTS
    OneEnginePerInstance
    RestartBudget
    StopOutlivesItsTarget
PROPERTY
    StopIsFinal
