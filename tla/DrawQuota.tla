----------------------------- MODULE DrawQuota -----------------------------
(***************************************************************************)
(* The organizer's token draw: drawTokensForMember of organizer-server.mjs *)
(* and the quota file draws.json it keeps.                                 *)
(*                                                                         *)
(* The mailbox runs several handlers at once.  A handler checks the        *)
(* request, awaits the credential check, fixes the epoch by the clock, and *)
(* joins a chain of promises; the one at the head of the chain loads the   *)
(* whole file, checks the bucket's budget, awaits the signatures, and      *)
(* writes the whole file back.  A request the file already holds is signed *)
(* again and charged nothing.  The dashboard changes the budgets at any    *)
(* time, the process may crash between any two steps, and a write of the   *)
(* file may fail, which only logs a warning.                               *)
(***************************************************************************)
EXTENDS Integers, FiniteSetsExt, SequencesExt

CONSTANTS
    Cred,           \* membership credentials
    Bucket,         \* fingerprints of the signing keys
    BucketOf,       \* purposeKeyFingerprint: the bucket of each known purpose
    Req,            \* draw requests, one per distinct set of blinded tokens
    Body,           \* Body[r]: what the organizer reads in request r
    ReadPurpose,    \* READ_PURPOSES
    ReadAuth,       \* READ_AUTH: read draws must name their reader
    Handler,
    Quota,          \* the quotas the dashboard may set
    MaxDraws,       \* the request limits it may set, 0 for none
    InitFile,       \* draws.json as the process finds it
    DiskFails,      \* whether a write of draws.json may fail
    Crashes,        \* whether the process may stop
    MaxDay          \* bound on days

Purpose == DOMAIN BucketOf

\* A request: its credential (valid or not), its purpose (perhaps unknown), the number of
\* blinded tokens, whether they were blinded under the key the purpose has now, and the day
\* the reader-auth of that credential's member is stamped with (-1: none).
BodyType == [cred : Cred, valid : BOOLEAN, purpose : STRING, size : Nat,
             current : BOOLEAN, auth : Int]

\* What draws.json holds: per credential, by day, a record with a state per bucket, or, in
\* older files, one state for all purposes.
State == [used : Nat, seen : SUBSET Req]
Record == [shape : {"nested"}, buckets : [Bucket -> State]] \cup [shape : {"pooled"}, state : State]
IsFile(f) ==
    /\ DOMAIN f = Cred
    /\ \A c \in Cred : DOMAIN f[c] \subseteq Int /\ \A d \in DOMAIN f[c] : f[c][d] \in Record

DrawAssumption ==
    /\ "post" \in Purpose /\ ReadPurpose \subseteq Purpose
    /\ BucketOf \in [Purpose -> Bucket]
    /\ Body \in [Req -> BodyType]
    /\ Quota \subseteq Nat /\ MaxDraws \subseteq Nat /\ MaxDay \in Nat \ {0}
    /\ {ReadAuth, DiskFails, Crashes} \subseteq BOOLEAN
    /\ IsFile(InitFile)

VARIABLES
    today,      \* the day number of Date.now()
    budget,     \* per bucket: quotaForBucket and maxDrawsForBucket as they stand
    revoked,    \* credentials whose member is read-revoked
    file,       \* draws.json: credential -> day -> record
    chain,      \* drawChain: handlers waiting for or holding the lock, in order
    call,       \* per handler: where drawTokensForMember stands
    minted,     \* history: batches that were answered with signatures
    peak        \* history: per bucket, the largest quota so far

vars == <<today, budget, revoked, file, chain, call, minted, peak>>

Idle == [pc |-> "idle"]

\* The blinded tokens of the requests in S, by request and position, and how many they are.
TokensOf(S) == UNION {{r} \X (1..Body[r].size) : r \in S}
SizeOf(S) == Cardinality(TokensOf(S))

----------------------------------------------------------------------------
(* The two shapes of a day's record.                                        *)

NoDraws == [used |-> 0, seen |-> {}]

Nested(buckets) == [shape |-> "nested", buckets |-> buckets]
Pooled(state) == [shape |-> "pooled", state |-> state]

\* The state a record keeps for bucket b; the pooled one counts as the post bucket's.
StateOf(record, b) ==
    IF record.shape = "nested" THEN record.buckets[b]
    ELSE IF b = BucketOf["post"] THEN record.state ELSE NoDraws

bucketsOf(record) == [b \in Bucket |-> StateOf(record, b)]

RecordAt(f, c, d) == IF d \in DOMAIN f[c] THEN f[c][d] ELSE Pooled(NoDraws)

StateAt(f, c, d, b) == StateOf(RecordAt(f, c, d), b)

\* The file after request r is charged to day d, in the snapshot f: the new record is
\* nested and the credential's records of before d - 1 are dropped.
Charge(f, r, d) ==
    LET c == Body[r].cred
        b == BucketOf[Body[r].purpose]
        old == bucketsOf(RecordAt(f, c, d))
        new == [old EXCEPT ![b] = [used |-> @.used + Body[r].size, seen |-> @.seen \cup {r}]]
        days == {k \in DOMAIN f[c] \cup {d} : k >= d - 1}
    IN  [f EXCEPT ![c] = [k \in days |-> IF k = d THEN Nested(new) ELSE f[c][k]]]

----------------------------------------------------------------------------
\* The synchronous checks: shape, known purpose, and the size limit of one request.
WellFormed(r) ==
    /\ Body[r].size > 0
    /\ Body[r].purpose \in Purpose
    /\ Body[r].size <= budget[BucketOf[Body[r].purpose]].quota

\* The censorable-reads gate: a fresh reader-auth of a reader who is not revoked.
ReaderAdmitted(r) ==
    \/ ~ReadAuth
    \/ Body[r].purpose \notin ReadPurpose
    \/ /\ Body[r].auth >= 0
       /\ Body[r].auth \in (today - 1)..(today + 1)
       /\ Body[r].cred \notin revoked

Drawing(h) == call[h].pc \in {"queued", "signing"}

Init ==
    /\ today = 1
    /\ budget \in [Bucket -> [quota : Quota, maxDraws : MaxDraws]]
    /\ revoked = {}
    /\ file = InitFile
    /\ chain = <<>>
    /\ call = [h \in Handler |-> Idle]
    /\ minted = {}
    /\ peak = [b \in Bucket |-> budget[b].quota]

\* A request reaches a handler, which stops at the await of verifyCredential.
Receive(h, r) ==
    /\ call[h] = Idle
    /\ WellFormed(r)
    /\ call' = [call EXCEPT ![h] = [pc |-> "verify", req |-> r]]
    /\ UNCHANGED <<today, budget, revoked, file, chain, minted, peak>>

\* The credential check returns; the epoch is fixed here, before the lock is held.
Verified(h) ==
    /\ call[h].pc = "verify"
    /\ LET r == call[h].req
       IN  IF Body[r].valid /\ ReaderAdmitted(r)
           THEN /\ call' = [call EXCEPT ![h] = [pc |-> "queued", req |-> r, day |-> today]]
                /\ chain' = Append(chain, h)
           ELSE /\ call' = [call EXCEPT ![h] = Idle]
                /\ UNCHANGED chain
    /\ UNCHANGED <<today, budget, revoked, file, minted, peak>>

\* Mutant: the limits are those of the purpose's own requests, not of the key they share.
WithinBudgetByPurpose(r, d) ==
    LET b == BucketOf[Body[r].purpose]
        state == StateAt(file, Body[r].cred, d, b)
        mine == {q \in state.seen : Body[q].purpose = Body[r].purpose}
    IN  \/ r \in state.seen
        \/ /\ budget[b].maxDraws > 0 => Cardinality(mine) < budget[b].maxDraws
           /\ SizeOf(mine) + Body[r].size <= budget[b].quota

\* Whether the locked section may sign: an answered request always, a new one within the
\* bucket's request limit and quota.
WithinBudget(r, d) ==
    LET b == BucketOf[Body[r].purpose]
        state == StateAt(file, Body[r].cred, d, b)
    IN  \/ r \in state.seen
        \/ /\ budget[b].maxDraws > 0 => Cardinality(state.seen) < budget[b].maxDraws
           /\ state.used + Body[r].size <= budget[b].quota

\* Mutant: a lock per credential.
LockedPerCred(h) ==
    \A g \in Handler \ {h} :
        call[g].pc = "signing" => Body[call[g].req].cred # Body[call[h].req].cred

\* withDrawLock: only the head of the chain runs, whatever became of the one before it.
Locked(h) == chain # <<>> /\ Head(chain) = h

\* The head of the chain loads the file and checks the budget, up to the await of blindSign.
Load(h) ==
    /\ call[h].pc = "queued"
    /\ Locked(h)
    /\ IF WithinBudget(call[h].req, call[h].day)
       THEN /\ call' = [call EXCEPT ![h] = [pc |-> "signing", req |-> call[h].req,
                                            day |-> call[h].day, draws |-> file]]
            /\ UNCHANGED chain
       ELSE /\ call' = [call EXCEPT ![h] = Idle]
            /\ chain' = Tail(chain)
    /\ UNCHANGED <<today, budget, revoked, file, minted, peak>>

\* blindSign throws on tokens blinded under another key: an error, no charge.
SignFails(h) ==
    /\ call[h].pc = "signing"
    /\ ~Body[call[h].req].current
    /\ call' = [call EXCEPT ![h] = Idle]
    /\ chain' = Tail(chain)
    /\ UNCHANGED <<today, budget, revoked, file, minted, peak>>

\* The batch is signed; a new request is charged in the snapshot and the file replaced.
Sign(h) ==
    /\ call[h].pc = "signing"
    /\ LET r == call[h].req
           d == call[h].day
           b == BucketOf[Body[r].purpose]
       IN  /\ Body[r].current
           /\ IF r \in StateAt(call[h].draws, Body[r].cred, d, b).seen THEN UNCHANGED file
              ELSE \/ file' = Charge(call[h].draws, r, d)
                   \/ DiskFails /\ UNCHANGED file
           /\ minted' = minted \cup {[req |-> r, day |-> d]}
    /\ call' = [call EXCEPT ![h] = Idle]
    /\ chain' = Tail(chain)
    /\ UNCHANGED <<today, budget, revoked, peak>>

\* POST /api/token-policy: the plain quota and its overrides, for every purpose at once.
SetQuota(quota) ==
    /\ budget' = [b \in Bucket |-> [budget[b] EXCEPT !.quota = quota[b]]]
    /\ peak' = [b \in Bucket |-> Max({peak[b], quota[b]})]
    /\ UNCHANGED <<today, revoked, file, chain, call, minted>>

\* POST /api/mailbox-policy: the request limits.
SetMaxDraws(limit) ==
    /\ budget' = [b \in Bucket |-> [budget[b] EXCEPT !.maxDraws = limit[b]]]
    /\ UNCHANGED <<today, revoked, file, chain, call, minted, peak>>

\* POST /api/read-access: a reader is revoked or reinstated.
SetReadAccess(c) ==
    /\ ReadAuth
    /\ revoked' = IF c \in revoked THEN revoked \ {c} ELSE revoked \cup {c}
    /\ UNCHANGED <<today, budget, file, chain, call, minted, peak>>

\* Midnight.  No draw is in flight across two of them.
NewDay ==
    /\ today < MaxDay
    /\ \A h \in Handler : Drawing(h) => call[h].day = today
    /\ today' = today + 1
    /\ UNCHANGED <<budget, revoked, file, chain, call, minted, peak>>

\* The process stops and starts again; only draws.json survives.
Crash ==
    /\ Crashes
    /\ chain' = <<>>
    /\ call' = [h \in Handler |-> Idle]
    /\ UNCHANGED <<today, budget, revoked, file, minted, peak>>

Next ==
    \/ \E h \in Handler :
          \/ \E r \in Req : Receive(h, r)
          \/ Verified(h) \/ Load(h) \/ SignFails(h) \/ Sign(h)
    \/ \E quota \in [Bucket -> Quota] : SetQuota(quota)
    \/ \E limit \in [Bucket -> MaxDraws] : SetMaxDraws(limit)
    \/ \E c \in Cred : SetReadAccess(c)
    \/ NewDay
    \/ Crash

Spec == Init /\ [][Next]_vars

----------------------------------------------------------------------------
\* The batches of credential c answered from bucket b on day d, and what the file of the
\* process's start had already counted there.
MintedIn(c, b, d) ==
    {r \in Req : /\ [req |-> r, day |-> d] \in minted
                 /\ Body[r].cred = c /\ BucketOf[Body[r].purpose] = b}

Inherited(c, b, d) == StateAt(InitFile, c, d, b)

\* Types, and the shape of the chain: the drawing handlers, each once.
TypeOK ==
    /\ today \in 1..MaxDay
    /\ budget \in [Bucket -> [quota : Quota, maxDraws : MaxDraws]]
    /\ ToSet(chain) = {h \in Handler : Drawing(h)} /\ IsInjective(chain)
    /\ IsFile(file)

\* Every answered batch stays charged, for as long as its day can still be drawn on: no
\* concurrent draw, of this credential or another, no migration of an older record and no
\* crash erases it from draws.json, and the file counts exactly the batches it names.
MintedIsCharged ==
    \A c \in Cred, b \in Bucket : \A d \in (today - 1)..today :
        LET state == StateAt(file, c, d, b)
        IN  /\ MintedIn(c, b, d) \subseteq state.seen
            /\ state.used = Inherited(c, b, d).used + SizeOf(state.seen \ Inherited(c, b, d).seen)

\* What a credential obtains from one key in one day, however many purposes share the key,
\* stays within the largest quota that key's bucket has had.
QuotaKept ==
    \A c \in Cred, b \in Bucket, d \in 1..MaxDay :
        Inherited(c, b, d).used <= peak[b]
            => Inherited(c, b, d).used + SizeOf(MintedIn(c, b, d) \ Inherited(c, b, d).seen)
                   <= peak[b]

\* The warning of saveDraws: without a restart the caps hold even when writes fail.
CapUntilRestart == QuotaKept

\* The promise of the draw's retry: one request is charged once, however often it is sent.
ChargedOnce ==
    \A r \in Req :
        Cardinality({d \in 1..MaxDay :
            r \in StateAt(file, Body[r].cred, d, BucketOf[Body[r].purpose]).seen}) <= 1

============================================================================
