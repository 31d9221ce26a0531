SPECIFICATION Spec
CONSTANTS
    User = {a, b, c}
    GroupId = {g}
    Post = {}
    MetaTags = {{"open"}, {"closed"}}
    NoGroup = NoGroup
    NoGate = NoGate
    NoTime = NoTime
    GrantTTL = 1
    Skew = 0
    MaxTime = 2
    MaxGrants = 1
    MaxSaveFail = 0
INVARIANTS TypeOK RolesNested GrantsFresh
SYMMETRY UserSymmetry
CHECK_DEADLOCK FALSE
