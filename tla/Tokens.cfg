SPECIFICATION Spec
CONSTANTS
    c1 = c1
    c2 = c2
    b1 = b1
    b2 = b2
    t1 = t1
    t2 = t2
    t3 = t3
    k1 = k1
    n1 = n1
    n2 = n2
    e1 = e1
    e2 = e2
    x = x
    y = y
    TheWallet = w1
    Caller = {c1, c2}
    Batch = {b1, b2}
    BatchTokens <- TokensOf
    KeyOf <- KeyOfToken
    Key = {k1, k2}
    NoKey = NoKey
    Need = {1, 2}
    MaxBind = 1
    MaxCrash = 1
    FailingBatchTokens <- FailingTokensOf
    FailingKey = {k1}
    FailingNeed = {1}
    FailingMaxBind = 1
    DrawBatch = {n1, n2}
    NoBatch = NoBatch
    DrawCaller = {d1}
    Slot = {s1, s2}
    Impatient = TRUE
    Aging = TRUE
    Refusing = TRUE
    MaxFail = 1
    MaxCap = 1
    MaxKill = 1
    Epoch = {e1, e2}
    Account = {x, y}
    SealedIn <- Sealed
    ReadableBy <- Readable
    WriteEpoch = {e2}
    MaxAttempts = 2
    MaxSwitch = 2
INVARIANTS
    TypeOK
    SpentOnce
    
    LadderHonest
PROPERTIES
    MarkersKept
SYMMETRY Symmetry
CHECK_DEADLOCK FALSE
