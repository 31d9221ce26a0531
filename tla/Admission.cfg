SPECIFICATION Spec
CONSTANTS
    NoOwner = NoOwner
    Strict = Strict
    NoKey = NoKey
    alice = alice
    eph = eph
    kPost = kPost
    kSpace = kSpace
    t1 = t1
    t2 = t2
    t3 = t3
    post = post
    rival = rival
    react = react
    wrap = wrap
    mail = mail
    stray = stray
    Token = {t1, t2, t3}
    Key = {kPost, kSpace}
    KeyOf <- MCKeyOf
    Event = {post, rival, react, wrap, mail, stray}
    Body <- MCBody
    Pubkey = {alice, eph}
    Member = {alice}
    GeneralKeys = {kPost}
    Config <- MCConfig
    Handler = {h1, h2}
    MaxTokenPairs = 2
    MaxReload = 1
INVARIANTS TypeOK BurnedRightly EventsPay RetryIdempotent
SYMMETRY HandlerSymmetry
CHECK_DEADLOCK FALSE
