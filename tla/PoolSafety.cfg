\* The limit of an engine changes between 1 (an unset one) and 2 under the requests.
CONSTANTS
    n1 = n1
    n2 = n2
    m1 = m1
    s1 = s1
    Nodes = {n1}
    Models = {m1}
    Ports = {q1, q2}
    Statics = {s1}
    StaticModels <- OneStatic
    StaticCap <- StaticSlots
    Weight <- Weights
    Objs = {o1, o2}
    Limits = {0, 2}
    Requests = {r1, r2, r3}
    None = none
SPECIFICATION Spec
SYMMETRY Symmetry
INVARIANTS
    SlotsMatchLeases
    StaticWithinLimit
    RejectionJustified
PROPERTY
    ImplementsSemaphore
