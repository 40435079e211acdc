\* Two nodes with one model each, and a configured backend; the first node has a limit below its engine's.
CONSTANTS
    n1 = n1
    n2 = n2
    Nodes = {n1, n2}
    Models = {m1}
    Ports = {q1}
    Statics = {s1}
    StaticModels <- NoStatics
    StaticCap <- NoSlots
    Weight <- Weights
    Objs = {o1, o2}
    Limits = {0, 1, 2}
    Requests = {}
    None = none
    Grace = 1
    NodeMax <- OneLimited
    Seqs = {2}
SPECIFICATION NMFairSpec
INVARIANTS
    RoutingConsistent
    MirrorsReport
PROPERTIES
    LostEngineLeaves
    ReadyEngineServed
