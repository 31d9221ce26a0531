SPECIFICATION Spec
CONSTANTS
    r1 = r1
    junk = junk
    n1 = n1
    n2 = n2
    NoBatch = NoBatch
    d1 = d1
    s1 = s1
    e1 = e1
    e2 = e2
    x = x
PROPERTIES
    EveryRequestServed
    PaidBatchLands
    SealedUnlocks
    SettlesConnected
CHECK_DEADLOCK FALSE
