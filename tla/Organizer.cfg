SPECIFICATION Spec
CONSTANTS
    alice = alice
    bob = bob
    k1 = k1
    a1 = a1
    a2 = a2
    b1 = b1
    s1 = s1
    t1 = t1
    t2 = t2
    q1 = q1
    q2 = q2
    q3 = q3
    \* budgets that change, kills and a midnight
    Cred = {alice, bob}
    Bucket = {k1}
    BucketOf <- SharedKey
    Req = {a1, a2, b1, s1}
    Body <- Bodies
    ReadPurpose = {"read"}
    ReadAuth = TRUE
    Handler = {h1, h2}
    Quota = {2, 3}
    MaxDraws = {0, 2}
    InitFile <- OldFile
    DiskFails = FALSE
    Crashes = TRUE
    MaxDay = 2
    \* a request and an unwelcome one, one handler, clocks ahead, a kill
    MailRequest = {r1, junk}
    Junk = {junk}
    Drift = {0, 1}
    Window = 1
    Overlap = 2
    Skew = 1
    MaxConc = 1
    Drops = TRUE
    Track = TRUE
    MaxNow = 3
    MaxCrash = 1
    \* an epoch per post, two requests with one token, a kill and a reconnect
    Posts = {p1, p2}
    Token = {t1, t2}
    UnlockRequest = {q1, q2, q3}
    TokenOf <- TokenOfRequest
    RotateEvery = 1
    AnsweredLimit = 1
    SeenCap = 4
    ReplayLimit = 2
    SaveFails = FALSE
    LateWriters = TRUE
    MaxStop = 1
    MaxDrop = 1
    \* two members and a single-use invite, which the dashboard may widen
    Member = {m1, m2}
    Manual = {}
    Call = {c1, c2}
    Unlimited = Unlimited
    FirstMax = 1
    NextMax = {1, 2}
    Retain = 9
    Attempts = 1
    Purging = FALSE
    MaxPrep = 1
    MaxFail = 1
    MaxKill = 1
    MaxPatch = 1
    \* a member at the dashboard, restarts of the app, and purged invites
    PasteManual = {m2}
    PasteCall = {c1}
    PasteNextMax = {Unlimited}
    PasteAttempts = 2
    PastePurging = TRUE
    PasteMaxPrep = 2
    PasteMaxFail = 0
    PasteMaxKill = 0
INVARIANTS
    TypeOK
    DrawsWithinQuota
    SkippedOnlyIfServed
    EpochKeysSound
    InvitesHonoured
CHECK_DEADLOCK FALSE
