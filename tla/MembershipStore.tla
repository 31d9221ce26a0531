-------------------------- MODULE MembershipStore --------------------------
(***************************************************************************)
(* The relay's membership store (relay/internal/membership/store.go) under *)
(* the concurrent handlers that call it: kind-9011 bindings                *)
(* (policy/membership.go, handleBinding) and per-post token spends.        *)
(*                                                                         *)
(* The store keeps which tokens are spent, which pubkeys are bound and     *)
(* since when.  The persistent relay (badger) keeps the spent set in its   *)
(* own database: a bind is then TWO durable steps, the spend and the JSON  *)
(* save, with other handlers, a failed save or a crash in between.  The    *)
(* relay without a data directory (inline) keeps everything in one JSON    *)
(* file rewritten under the lock.                                          *)
(***************************************************************************)
EXTENDS SpentSet, FiniteSets

CONSTANTS
    Token,          \* token ids, of credentials and of posting tokens alike
    Credential,     \* the tokens signed under a binding issuer key
    Pubkey,         \* npubs that present binding events
    Event,          \* ids of token-bearing events
    TokensOf,       \* TokensOf[e]: the distinct token ids event e carries, in tag order
    Handler,        \* concurrent binding handlers (khatru serves events concurrently)
    LegacySpent,    \* tokens in the `spent` array of an older membership.json
    LegacyBound,    \* members of that file that have no bound_at entry
    NoTime,         \* no bind time recorded
    MaxTime,        \* bound on the clock
    NewcomerWindow, \* stiq:gov newcomer days, in clock units
    MaxIoFail,      \* bound on failed JSON saves and badger I/O errors
    MaxRestart      \* bound on crashes

ASSUME StoreAssumption ==
    /\ Pubkey \cap Event = {}
    /\ {NoOwner, Strict} \cap (Pubkey \cup Event) = {}
    /\ TokensOf \in [Event -> Seq(Token)]
    /\ \A e \in Event : Distinct(TokensOf[e])
    /\ Credential \subseteq Token
    /\ LegacySpent \subseteq Token
    /\ LegacyBound \subseteq Pubkey
    /\ MaxTime \in Nat /\ MaxIoFail \in Nat /\ MaxRestart \in Nat
    /\ NewcomerWindow \in Nat
    /\ NoTime \notin Nat

Owner == Pubkey \cup Event \cup {Strict}
Time == 0..MaxTime

VARIABLES
    badger,     \* spentDB # nil: the store was opened with a badger spent set
    spent,      \* the authoritative spent set: the badger DB, or the inline map
    bound,      \* s.bound, in memory
    boundAt,    \* s.boundAt, in memory
    file,       \* the JSON file: bound, bound_at and (legacy or inline) spent records
    call,       \* per handler: where its handleBinding stands
    now,        \* the relay's clock
    ioFails,    \* failed saves and badger errors so far
    restarts,   \* crashes so far
    minted,     \* history: <<token, pubkey>> pairs whose bind was recorded
    told,       \* history: pubkeys whose bind Bind completed, so the relay answered OK
    paid        \* history: per event, the batch it was told is paid for

vars == <<badger, spent, bound, boundAt, file, call, now, ioFails, restarts,
          minted, told, paid>>

Unspent == [t \in Token |-> NoOwner]
NoTimes == [p \in Pubkey |-> NoTime]

\* A handler outside handleBinding.
Idle == [pc |-> "idle"]

----------------------------------------------------------------------------
(* loadFrom: what the store holds after reading the JSON file.  A file in   *)
(* the older format is imported into badger, never over a record there.     *)

\* Mutated form: the spent records are rebuilt from the file alone.
LoadSpentFromFile(db, f) == f.spent

LoadSpent(db, f) == [t \in Token |-> IF db[t] # NoOwner THEN db[t] ELSE f.spent[t]]

LegacyFile ==
    [bound |-> LegacyBound, boundAt |-> NoTimes,
     spent |-> [t \in Token |-> IF t \in LegacySpent THEN Strict ELSE NoOwner]]

Init ==
    /\ badger \in BOOLEAN
    /\ file = LegacyFile
    /\ spent = LoadSpent(Unspent, file)
    /\ bound = file.bound
    /\ boundAt = file.boundAt
    /\ call = [h \in Handler |-> Idle]
    /\ now = 0
    /\ ioFails = 0
    /\ restarts = 0
    /\ minted = {}
    /\ told = {}
    /\ paid = [e \in Event |-> {}]

----------------------------------------------------------------------------
(* save: one atomic rewrite of the whole file (temp file, fsync, rename),   *)
(* or an error that leaves the old file.  badger keeps the spent records    *)
(* itself, so its file holds none.                                          *)

Snapshot ==
    [bound |-> bound', boundAt |-> boundAt', spent |-> IF badger THEN Unspent ELSE spent']

Saved == file' = Snapshot /\ UNCHANGED ioFails

IoFailure == ioFails < MaxIoFail /\ ioFails' = ioFails + 1

SaveFailed == IoFailure /\ UNCHANGED file

\* Mutated forms of MarkBoundAt: a re-bind restamps the member; a stamp in milliseconds.
MarkBoundAtAlways(p) == [boundAt EXCEPT ![p] = now]
MarkBoundAtMillis(p) == [boundAt EXCEPT ![p] = IF @ = NoTime THEN 1000 * now ELSE @]

\* markBoundAt: stamp the bind time, preserving one already recorded.
MarkBoundAt(p) == [boundAt EXCEPT ![p] = IF @ = NoTime THEN now ELSE @]

\* bound and boundAt of a member being recorded.
Record(p) == bound' = bound \cup {p} /\ boundAt' = MarkBoundAt(p)

\* Mutated form of Answer: an error from Bind is dropped on every path.
AnswerOk(h, err) ==
    /\ call' = [call EXCEPT ![h] = Idle]
    /\ told' = told \cup {call[h].pk}

\* The relay's answer: OK when Bind returned nil; on the fast path OK whatever it returned,
\* which tells the device nothing new.
Answer(h, err) ==
    /\ call' = [call EXCEPT ![h] = Idle]
    /\ told' = IF ~call[h].fast /\ err = "nil" THEN told \cup {call[h].pk} ELSE told

----------------------------------------------------------------------------
(* handleBinding of a verified credential: read IsBound, then call Bind.    *)

\* The IsBound test that selects the idempotent fast path.
Present(h, p, t) ==
    /\ call[h] = Idle
    /\ call' = [call EXCEPT ![h] = [pc |-> "spend", pk |-> p, tok |-> t, fast |-> p \in bound]]
    /\ UNCHANGED <<badger, spent, bound, boundAt, file, now, ioFails, restarts,
                   minted, told, paid>>

\* Mutated form of BindSpend: the record of another pubkey is overwritten.
BindSpendSteal(h) ==
    /\ badger
    /\ call[h].pc = "spend"
    /\ spent' = Spend(spent, <<call[h].tok>>, call[h].pk)
    /\ call' = [call EXCEPT ![h].pc = "record"]
    /\ UNCHANGED <<badger, bound, boundAt, file, now, ioFails, restarts, minted, told, paid>>

\* Bind on badger, first durable step: spendForEvent, the credential owned by the pubkey.
BindSpend(h) ==
    /\ badger
    /\ call[h].pc = "spend"
    /\ CanSpend(spent, <<call[h].tok>>, call[h].pk)
    /\ spent' = Spend(spent, <<call[h].tok>>, call[h].pk)
    /\ call' = [call EXCEPT ![h].pc = "record"]
    /\ UNCHANGED <<badger, bound, boundAt, file, now, ioFails, restarts, minted, told, paid>>

\* Bind stops before any change: ErrTokenSpent, or badger's own I/O error.
BindRefused(h) ==
    /\ call[h].pc = "spend"
    /\ \/ badger /\ IoFailure /\ Answer(h, "io")
       \/ badger /\ ~CanSpend(spent, <<call[h].tok>>, call[h].pk) /\ Answer(h, "spent")
          /\ UNCHANGED ioFails
       \/ ~badger /\ spent[call[h].tok] # NoOwner /\ Answer(h, "spent") /\ UNCHANGED ioFails
    /\ UNCHANGED <<badger, spent, bound, boundAt, file, now, restarts, minted, paid>>

\* Bind on badger, second step, under s.mu: the member is recorded and saved; a failed
\* save is an error to the caller, yet the member stays bound in memory.
BindRecord(h) ==
    /\ call[h].pc = "record"
    /\ Record(call[h].pk)
    /\ minted' = minted \cup {<<call[h].tok, call[h].pk>>}
    /\ \/ Saved /\ Answer(h, "nil")
       \/ SaveFailed /\ Answer(h, "io")
    /\ UNCHANGED <<badger, spent, now, restarts, paid>>

\* Bind without badger: everything under one lock, the credential spent strictly.
BindInline(h) ==
    /\ ~badger
    /\ call[h].pc = "spend"
    /\ spent[call[h].tok] = NoOwner
    /\ spent' = Spend(spent, <<call[h].tok>>, Strict)
    /\ Record(call[h].pk)
    /\ minted' = minted \cup {<<call[h].tok, call[h].pk>>}
    /\ \/ Saved /\ Answer(h, "nil")
       \/ SaveFailed /\ Answer(h, "io")
    /\ UNCHANGED <<badger, now, restarts, paid>>

----------------------------------------------------------------------------
(* Per-post spends.                                                         *)

\* Saving after a spend: badger persists the records itself, the inline map is rewritten.
SaveSpend(ok) ==
    \/ (badger \/ spent' = spent) /\ ok /\ UNCHANGED <<file, ioFails>>
    \/ ~badger /\ spent' # spent /\ ok /\ Saved
    \/ ~badger /\ spent' # spent /\ ~ok /\ SaveFailed

\* SpendAllForEvent: the first n of the event's tokens, all or nothing, owned by it; an
\* exact retry succeeds without writing.
SpendAllForEvent(e, n) ==
    LET batch == SubSeq(TokensOf[e], 1, n) IN
    /\ CanSpend(spent, batch, e)
    /\ spent' = Spend(spent, batch, e)
    /\ UNCHANGED <<badger, bound, boundAt, call, now, restarts, minted, told>>
    /\ \/ SaveSpend(TRUE) /\ paid' = [paid EXCEPT ![e] = @ \cup Ids(batch)]
       \/ SaveSpend(FALSE) /\ UNCHANGED paid

----------------------------------------------------------------------------
(* The environment: time passes, and the relay process dies and comes back. *)

Tick ==
    /\ now < MaxTime
    /\ now' = now + 1
    /\ UNCHANGED <<badger, spent, bound, boundAt, file, call, ioFails, restarts,
                   minted, told, paid>>

\* A crash loses memory and the handlers in flight; loadFrom rebuilds the store.
Restart ==
    /\ restarts < MaxRestart
    /\ restarts' = restarts + 1
    /\ spent' = LoadSpent(IF badger THEN spent ELSE Unspent, file)
    /\ bound' = file.bound
    /\ boundAt' = file.boundAt
    /\ call' = [h \in Handler |-> Idle]
    /\ UNCHANGED <<badger, file, now, ioFails, minted, told, paid>>

Bind(h) == BindSpend(h) \/ BindRefused(h) \/ BindRecord(h) \/ BindInline(h)

Next ==
    \/ \E h \in Handler, p \in Pubkey, t \in Credential : Present(h, p, t)
    \/ \E h \in Handler : Bind(h)
    \/ \E e \in Event : \E n \in 1..Len(TokensOf[e]) : SpendAllForEvent(e, n)
    \/ Tick
    \/ Restart

Spec == Init /\ [][Next]_vars

\* A device whose bind is unfinished presents its credential again
\* (client/src/onboarding/pendingBind.ts keeps the binding event for that).
Represent(p, t) ==
    spent[t] = p /\ p \notin file.bound /\ \E h \in Handler : Present(h, p, t)

\* The relay's handlers run to completion, and the owner of an unfinished bind keeps trying.
Fairness ==
    /\ \A h \in Handler : WF_vars(Bind(h))
    /\ \A p \in Pubkey, t \in Credential : SF_vars(Represent(p, t))

FairSpec == Spec /\ Fairness

----------------------------------------------------------------------------
(* Properties.                                                              *)

BindCall == [pc : {"spend", "record"}, pk : Pubkey, tok : Token, fast : BOOLEAN]

\* Every variable keeps its type (store.go's MemStore, the persisted file, handleBinding's
\* locals); a bind time is a reading of the relay's clock.
TypeOK ==
    /\ badger \in BOOLEAN
    /\ spent \in [Token -> Owner \cup {NoOwner}]
    /\ bound \in SUBSET Pubkey
    /\ boundAt \in [Pubkey -> Time \cup {NoTime}]
    /\ file \in [bound : SUBSET Pubkey, boundAt : [Pubkey -> Time \cup {NoTime}],
                 spent : [Token -> Owner \cup {NoOwner}]]
    /\ call \in [Handler -> {Idle} \cup BindCall]
    /\ now \in Time
    /\ ioFails \in 0..MaxIoFail
    /\ restarts \in 0..MaxRestart
    /\ minted \in SUBSET (Token \X Pubkey)
    /\ told \in SUBSET Pubkey
    /\ paid \in [Event -> SUBSET Token]

\* The inline store forgets what a failed save did not write; its promises are stated for
\* the runs in which every save succeeded.  The badger store makes them unconditionally.
Reliable == badger \/ ioFails = 0

\* ErrTokenSpent's comment: "a credential can never mint two accounts", over every
\* interleaving of Bind's two steps, failed saves, retries and restarts.
OneAccountPerCredential ==
    Reliable => \A a, b \in minted : a[1] = b[1] => a[2] = b[2]

\* A token is honoured for one event, and never for an event and a bind both.
HonoredOnce ==
    Reliable => /\ \A e, f \in Event : e # f => paid[e] \cap paid[f] = {}
                /\ \A m \in minted, e \in Event : m[1] \notin paid[e]

\* Nobody is a member, in memory or on disk, without a credential that is spent on it and
\* still recorded spent: no failure or restart turns into a free account.
MemberPaid ==
    Reliable => \A p \in (bound \cup file.bound) \ LegacyBound :
                    \E t \in Token : <<t, p>> \in minted /\ spent[t] \in {p, Strict}

\* handleBinding answers a first bind OK only when the member survives a restart.
AckDurable == told \subseteq file.bound

\* SpendAllForEvent is all or nothing: the tokens an event owns are exactly the batch it
\* was told is paid, whatever price (batch length) each retry was charged at.
ChargedIffTold ==
    Reliable => \A e \in Event : {t \in Token : spent[t] = e} = paid[e]

\* ConfigHolder.isNewcomer (policy/organizer.go): no recorded bind time is old enough.
IsNewcomer(p) == boundAt[p] # NoTime /\ now - boundAt[p] < NewcomerWindow

\* markBoundAt: a bound member who is past the newcomer window is never put back in it, by
\* a re-bind, a spare credential or a restart (members of a file without bound_at aside).
SeniorityKept ==
    [][\A p \in (bound \cap bound') \ LegacyBound : IsNewcomer(p)' => IsNewcomer(p)]_vars

\* handleBinding's comment says re-binding "never resets the member's newcomer seniority",
\* and Store.BoundAt's that a member without a timestamp is never locked out: the same for
\* every bound member.
SeniorityKeptByAll ==
    [][\A p \in bound \cap bound' : IsNewcomer(p)' => IsNewcomer(p)]_vars

\* Bind's save-failure recovery: a pubkey whose credential was spent is eventually a saved
\* member, since the owner's retry converges instead of being refused.
SpendLeadsToMember ==
    \A p \in Pubkey, t \in Credential : (badger /\ spent[t] = p) ~> p \in file.bound

\* The badger spent set as the abstract ledger (the inline map promises none of it).
Ledger == INSTANCE Ledger WITH owner <- IF badger THEN spent ELSE Unspent

\* Every step of the store is a ledger claim or leaves the ledger alone.
LedgerSpec == Ledger!Spec
=============================================================================
