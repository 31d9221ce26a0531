SPECIFICATION FairSpec
CONSTANTS
    NoOwner = NoOwner
    Strict = Strict
    NoTime = NoTime
    p1 = p1
    p2 = p2
    t1 = t1
    t2 = t2
    t3 = t3
    e1 = e1
    e2 = e2
    Token = {t1, t2, t3}
    Credential = {t1, t2}
    Pubkey = {p1, p2}
    Event = {e1, e2}
    TokensOf <- MCTokensOf
    Handler = {h1, h2}
    LegacySpent = {t3}
    LegacyBound = {}
    NewcomerWindow = 1
    MaxTime = 1
    MaxIoFail = 1
    MaxRestart = 1
INVARIANTS TypeOK OneAccountPerCredential HonoredOnce MemberPaid AckDurable ChargedIffTold
PROPERTIES SeniorityKept SpendLeadsToMember LedgerSpec
CHECK_DEADLOCK FALSE
