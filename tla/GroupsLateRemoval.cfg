SPECIFICATION Spec
CONSTANTS
    User = {a, b, c}
    GroupId = {g}
    Post = {}
    MetaTags = {{"open"}, {"closed"}}
    NoGroup = NoGroup
    NoGate = NoGate
    NoTime = NoTime
    GrantTTL = 2
    Skew = 2
    MaxTime = 2
    MaxGrants = 1
    MaxSaveFail = 0

INVARIANT GrantsFresh
SYMMETRY UserSymmetry
CHECK_DEADLOCK FALSE
