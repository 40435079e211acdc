\* One request through every interleaving with its client, engine and keep-alive.
CONSTANTS
    Requests = {r1}
    MaxFrames = 3
SPECIFICATION Spec
INVARIANTS
    UpstreamWithinLease
    NoGaps
    StatusFitsOutcome
    ChargedForDelivered
    LoggedOnce
PROPERTIES
    CancelFreesSlot
    KeepAliveEnds
CHECK_DEADLOCK FALSE
