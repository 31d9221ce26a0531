SPECIFICATION Spec
CONSTANTS
    post = post
    b1 = b1
    note = note
    d1 = d1
    d2 = d2
    w1 = w1
    w2 = w2
    north = north
    south = south
    a1 = a1
    a2 = a2
    z1 = z1
    c1 = c1
    u = u
    v = v
    NoOne = NoOne
    Boxes <- TheBoxes
    Queues <- TheQueues
    Rings <- TheRings
    Lists <- TheLists
    Managers <- TheManagers
    Ladders <- TheLadders
INVARIANTS
    TypeOK
    BlobsFirst
    NothingLost
    WritesKept
    AccountsKept
    CommunitiesTrue
    TransportTrue
    RetryOwed
SYMMETRY Symmetry
CHECK_DEADLOCK FALSE
