\* Two accounts of either role and two handlers at a time; one account asks for keys.
CONSTANTS
    Ids = {a, c}
    Procs = {p1, p2}
    Quota = 1
    Changers = {a}
    MaxPw = 2
    Owners = {c}
    MaxKeys = 3
    MaxFails = 1
    None = none
SPECIFICATION Spec
SYMMETRY Symmetry
INVARIANTS
    AdminsCounted
    PasswordChangeEvicts
    QuotaNearlyKept
