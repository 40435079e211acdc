\* One key and one token that is not one; the cache starts over beyond one entry.
CONSTANTS
    Secrets = {k, x}
    Keys = {k}
    TTL = 1
    Lag = 1
    MaxEntries = 1
    Minute = 2
    Limit = 2
    Requests = {r1, r2}
    Handlers = {h1, h2}
    None = none
SPECIFICATION Spec
SYMMETRY Symmetry
INVARIANT
    BurstBounded
PROPERTIES
    AnswersAreRecent
    RevokedAtOnce
