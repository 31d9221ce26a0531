SPECIFICATION GuardSpec
CONSTANTS
    User = {a, b}
    GroupId = {g}
    Post = {p}
    MetaTags = {{"open"}, {"closed"}}
    NoGroup = NoGroup
    NoGate = NoGate
    NoTime = NoTime
    NoState = NoState
    GrantTTL = 1
    Skew = 0
    MaxTime = 2
    MaxGrants = 0
    MaxSaveFail = 1
    Handler = {h1, h2}
    FastRestart = FALSE
    RacyRecreate = FALSE
    MaxEvents = 3
INVARIANTS StateConverges CacheMatchesStore
SYMMETRY MCSymmetry
CHECK_DEADLOCK FALSE
