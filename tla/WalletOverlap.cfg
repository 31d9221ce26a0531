SPECIFICATION Spec
CONSTANTS
    w1 = w1
    w2 = w2
    c1 = c1
    c2 = c2
    b1 = b1
    b2 = b2
    t1 = t1
    t2 = t2
    t3 = t3
    k1 = k1
    k2 = k2
    NoKey = NoKey
    Instance = {w1}
    Caller = {c1, c2}
    Batch = {b1, b2}
    BatchTokens <- MCBatchTokens
    KeyOf <- MCKeyOf
    Key = {k1, k2}
    Overlap = TRUE
    Replay = FALSE
    StorageFails = FALSE
    MaxBind = 0
    MaxCrash = 0
    Need = {1, 2}
INVARIANT
    NoTokenTwice
